---- MODULE Spec2Model ----
(***************************************************************************)
(* Login risk-and-session-enforcement pipeline of the OTT access-control   *)
(* service: the Redis session registry (config/redis.js), the login,       *)
(* verifyOtp, logout and terminateSession controllers (authController),    *)
(* the auth middleware, the geo detector, the device trust scorer, the     *)
(* spoofing detector and the alert rules engine.                           *)
(*                                                                         *)
(* Redis and MongoDB calls are taken to succeed unless a fault is injected *)
(* explicitly (alert engine).  Time is the Date.now() reading in ms.       *)
(***************************************************************************)
EXTENDS Integers, Sequences, FiniteSets, TLC

VARIABLES
  now,            \* Date.now() in milliseconds
  ticks,          \* number of clock advances so far (bounded)
  reqNo,          \* number of handler invocations so far (bounded)
  sessions,       \* Redis session:<u>:<d> -> session record (with its expiry)
  userSessions,   \* Redis set user:<u>:sessions
  blocked,        \* Redis blocked:<u> -> expiry instant (0: key absent)
  lastLocation,   \* Redis user:<u>:last_location
  trustCache,     \* Redis trust:<u>:<d> -> stored score
  countries,      \* Redis set device:<d>:countries
  loginCount,     \* Redis device:<d>:login_count
  failedAttempts, \* Redis device:<d>:failed_attempts -> [n, exp]
  deviceUsers,    \* Redis set device:<d>:users
  alertStore,     \* Redis alerts:<ts> -> alert record
  alertSorted,    \* Redis sorted set alerts:sorted (key -> score)
  flagged,        \* Redis user:<u>:flagged keys and the flagged_users set
  devices,        \* MongoDB Device collection
  userPlan,       \* MongoDB User.plan, per registered user
  issued,         \* tokens handed to clients so far
  otpMails,       \* OTP mails handed to the mail transport, per user
  resp,           \* the last handler's request and response
  procs,          \* logins inside the SessionEnforcement stage
  raced,          \* per user: two enforcement stages have overlapped
  evalOut,        \* the last evaluateRules call: context, faults, outcome
  components,     \* the component mapping of the request being fingerprinted
  fingerprint,    \* what generateEnhancedFingerprint returned for it
  rlSignup,       \* Redis rl:signup:<ip> -> [hits, setAt] (hits 0: key absent)
  userEmails,     \* MongoDB User collection: the e-mail addresses signed up
  sessionDocs     \* MongoDB Session collection: per user and device, the
                  \* documents in insertion order

redisSess  == <<sessions, userSessions>>
redisTrust == <<trustCache, countries, loginCount, failedAttempts, deviceUsers>>
redisAlert == <<alertStore, alertSorted, flagged>>
clock      == <<now, ticks>>
fpState    == <<components, fingerprint>>
signupState == <<rlSignup, userEmails>>
vars == <<now, ticks, reqNo, sessions, userSessions, blocked, lastLocation,
          trustCache, countries, loginCount, failedAttempts, deviceUsers,
          alertStore, alertSorted, flagged, devices, userPlan, issued, otpMails,
          resp, procs, raced, evalOut, components, fingerprint, rlSignup,
          userEmails, sessionDocs>>

----------------------------------------------------------------------------
\* Bounds of the model
MaxTicks    == 1
MaxRequests == 2
EnfMaxTicks    == 1
EnfMaxRequests == 3
SeqMaxTicks    == 1
SeqMaxRequests == 5
MaxCalls       == 1

\* Program constants
SessionTTLSeconds   == 86400
BlockSeconds        == 3600
LastLocationSeconds == 604800
FailedAttemptsSeconds == 3600
ImpossibleMinKm     == 500
FlightSpeedKmh      == 900
SpoofBlockThreshold == 70
SpoofSuspiciousThreshold == 50
OtpTrustThreshold   == 60
BaseTrustScore      == 50

HourMs == 3600000
DayMs  == 86400000
CoarseSteps == {HourMs, DayMs}

Undef == "undefined"

Users   == {"u1", "u2"}
Emails  == Users \cup {"nobody"}
Plans   == {"BASIC", "STANDARD", "PREMIUM", "FREE"}

Min(a, b) == IF a < b THEN a ELSE b
Max(a, b) == IF a > b THEN a ELSE b

----------------------------------------------------------------------------
\* Plan limits
getMaxSessions(plan) ==
  IF plan = "BASIC" THEN 1
  ELSE IF plan = "STANDARD" THEN 2
  ELSE IF plan = "PREMIUM" THEN 4
  ELSE 1

----------------------------------------------------------------------------
\* Requests.  A login or verifyOtp request is identified by the device id
\* that generateEnhancedFingerprint derives from it; FingerprintOf gives the
\* components of the request that hashes to that id (the ip is a component,
\* so one device id always arrives from one ip).
Devices == {"dA", "dB", "dC", "dD", "dE"}

FingerprintOf(d) ==
  CASE d = "dA" -> [uaLong |-> TRUE,  uaTokens |-> 0, platformMismatch |-> FALSE,
                    clientFp |-> TRUE,  ip |-> "ipDEL"]
    [] d = "dB" -> [uaLong |-> TRUE,  uaTokens |-> 0, platformMismatch |-> FALSE,
                    clientFp |-> TRUE,  ip |-> "ipNYC"]
    [] d = "dC" -> [uaLong |-> TRUE,  uaTokens |-> 0, platformMismatch |-> TRUE,
                    clientFp |-> TRUE,  ip |-> "ipDEL"]
    [] d = "dD" -> [uaLong |-> TRUE,  uaTokens |-> 1, platformMismatch |-> FALSE,
                    clientFp |-> FALSE, ip |-> "ipNYC"]
    [] d = "dE" -> [uaLong |-> FALSE, uaTokens |-> 0, platformMismatch |-> FALSE,
                    clientFp |-> FALSE, ip |-> "ipLAN"]

\* detectSpoofing: additive weights, isSuspicious on the uncapped sum.
SpoofRaw(c) ==
    (IF ~c.uaLong THEN 30 ELSE 0)
  + 50 * c.uaTokens
  + (IF c.platformMismatch THEN 25 ELSE 0)
  + (IF ~c.clientFp THEN 40 ELSE 0)

\* detectSpoofing returning the sum without the cap at 100
detectSpoofing_NoCap(c) ==
  [isSuspicious |-> SpoofRaw(c) > SpoofSuspiciousThreshold,
   riskScore    |-> SpoofRaw(c)]

detectSpoofing(c) ==
  [isSuspicious |-> SpoofRaw(c) > SpoofSuspiciousThreshold,
   riskScore    |-> Min(100, SpoofRaw(c))]

\* The detector's verdict with the rejection threshold met at 70
SpoofRejects_From70(sc) == sc.isSuspicious /\ sc.riskScore >= SpoofBlockThreshold

\* login line 62: the SpoofCheck rejection test
SpoofRejects(sc) == sc.isSuspicious /\ sc.riskScore > SpoofBlockThreshold

----------------------------------------------------------------------------
\* Enhanced fingerprint.  Text is a sequence of characters.  A component value
\* is a JSON value of the request, Val(t, s): a "string" (s: its characters),
\* a "number" (s: its decimal digits), an "array" of one-character strings
\* (s: the elements) or an "object" (s: what tells one object from another).
Val(t, s) == [t |-> t, s |-> s]

KeyText(k) ==
  CASE k = "canvas"       -> <<"c", "a", "n", "v", "a", "s">>
    [] k = "webgl"        -> <<"w", "e", "b", "g", "l">>
    [] k = "fonts"        -> <<"f", "o", "n", "t", "s">>
    [] k = "deviceMemory" -> <<"d", "e", "v", "i", "c", "e", "M", "e", "m", "o", "r", "y">>

\* Array.prototype.join
RECURSIVE Join(_, _)
Join(parts, sep) ==
  IF parts = <<>> THEN <<>>
  ELSE IF Len(parts) = 1 THEN parts[1]
  ELSE parts[1] \o sep \o Join(Tail(parts), sep)

\* `${value}`: String(value)
ToText(v) ==
  CASE v.t = "string" -> v.s
    [] v.t = "number" -> v.s
    [] v.t = "array"  -> Join([i \in 1..Len(v.s) |-> <<v.s[i]>>], <<",">>)
    [] v.t = "object" -> <<"[", "o", "b", "j", "e", "c", "t", " ",
                           "O", "b", "j", "e", "c", "t", "]">>

\* Object.entries(components).sort(([keyA], [keyB]) => keyA.localeCompare(keyB)):
\* insertion into the sorted rest
RECURSIVE SortKeys(_)
SortKeys(keys) ==
  IF keys = <<>> THEN <<>>
  ELSE LET rank == [k \in {"canvas", "deviceMemory", "fonts", "webgl"} |->
                      CASE k = "canvas" -> 1 [] k = "deviceMemory" -> 2
                        [] k = "fonts" -> 3 [] k = "webgl" -> 4]
           rest   == SortKeys(Tail(keys))
           k      == Head(keys)
           before == SelectSeq(rest, LAMBDA x : rank[x] < rank[k])
           after  == SelectSeq(rest, LAMBDA x : ~(rank[x] < rank[k]))
       IN before \o <<k>> \o after

NoFingerprint == [set |-> FALSE, fingerprintString |-> <<>>, deviceId |-> <<>>]
NoComponents  ==
  [k \in {"canvas", "webgl", "fonts", "deviceMemory"} |-> Val("string", <<>>)]

\* generateEnhancedFingerprint, from the component mapping on.  Of the
\* components of lines 13-55 the four that vary here are kept, in declaration
\* order; the others are held fixed and add the same text to every string.
\* The SHA-256 digest is taken as one-to-one on the strings that occur.
generateEnhancedFingerprint(comp) ==
  LET keys == SortKeys(<<"canvas", "webgl", "fonts", "deviceMemory">>)
      fingerprintString ==
        Join([i \in 1..Len(keys) |->
                KeyText(keys[i]) \o <<":">> \o ToText(comp[keys[i]])], <<"|">>)
  IN [set |-> TRUE, fingerprintString |-> fingerprintString,
      deviceId |-> <<"sha256", fingerprintString>>]

----------------------------------------------------------------------------
\* Geo detection.  geoip.lookup resolves an ip to a city or to null.
Locations == {"DEL", "NYC", "JAI", "BOM"}
NoGeo     == "nogeo"

\* geoip.lookup resolving every address, private ones to Delhi
GeoLookup_AllResolve(ip) ==
  CASE ip = "ipNYC" -> "NYC"
    [] ip = "ipJAI" -> "JAI"
    [] ip = "ipBOM" -> "BOM"
    [] OTHER        -> "DEL"

GeoLookup(ip) ==
  CASE ip = "ipDEL" -> "DEL"
    [] ip = "ipNYC" -> "NYC"
    [] ip = "ipJAI" -> "JAI"
    [] ip = "ipBOM" -> "BOM"
    [] OTHER        -> NoGeo

CountryOf(loc) == IF loc = "NYC" THEN "US" ELSE "IN"

\* calculateDistance (haversine, R = 6371 km) on the cities' coordinates,
\* Delhi (28.70, 77.10), New York (40.71, -74.01), Jaipur (26.91, 75.79) and
\* Mumbai (19.08, 72.88), rounded to whole km.
calculateDistance(a, b) ==
  LET pair == {a, b}
  IN CASE a = b                -> 0
       [] pair = {"DEL", "NYC"} -> 11742
       [] pair = {"DEL", "JAI"} -> 237
       [] pair = {"DEL", "BOM"} -> 1152
       [] pair = {"JAI", "NYC"} -> 11875
       [] pair = {"BOM", "NYC"} -> 12538
       [] pair = {"BOM", "JAI"} -> 920
       [] OTHER                 -> 0

\* The travel time of a vehicle at a tenth of the flight speed
getMinTravelTime_TenthSpeed(km) == km * ((3600 * 1000 * 10) \div FlightSpeedKmh)

\* getMinTravelTime: (km / 900) * 3600 * 1000 ms
getMinTravelTime(km) == km * ((3600 * 1000) \div FlightSpeedKmh)

\* Is a Redis key written at instant `setAt` with `ttl` seconds still there
\* at instant t?
Live(setAt, ttlSeconds, t) == (t - setAt) \div 1000 < ttlSeconds

NoLocation == [set |-> FALSE, loc |-> NoGeo, ts |-> 0]

\* redis.get of user:<u>:last_location
LastLocationOf(u) == lastLocation[u]

\* The last location left alone by a check flagged impossible
LocationWritten_UnlessImpossible(impossible, cur) ==
  IF impossible THEN NoLocation ELSE cur

\* checkGeoImpossibility lines 101-106: the setex after the risk tiers
LocationWritten(impossible, cur) == cur

\* checkGeoImpossibility testing the distance tier before the country tier
checkGeoImpossibility_DistanceFirst(u, ip) ==
  LET loc  == GeoLookup(ip)
      last == LastLocationOf(u)
      cur  == [set |-> TRUE, loc |-> loc, ts |-> now]
  IN IF loc = NoGeo
       THEN [isImpossible |-> FALSE, riskScore |-> 0, currentLocation |-> Undef,
             lastLocation |-> NoLocation, write |-> NoLocation]
     ELSE IF ~last.set
       THEN [isImpossible |-> FALSE, riskScore |-> 0, currentLocation |-> loc,
             lastLocation |-> NoLocation, write |-> cur]
     ELSE
       LET distance   == calculateDistance(last.loc, loc)
           timeDiff   == now - last.ts
           impossible == timeDiff < getMinTravelTime(distance)
                           /\ distance > ImpossibleMinKm
           risk == IF impossible THEN 95
                   ELSE IF distance > 3000 /\ timeDiff < 3600000 THEN 75
                   ELSE IF distance > 100 THEN 20
                   ELSE IF CountryOf(last.loc) # CountryOf(loc) THEN 40
                   ELSE 0
       IN [isImpossible |-> impossible, riskScore |-> risk,
           currentLocation |-> loc, lastLocation |-> last,
           write |-> LocationWritten(impossible, cur)]

\* checkGeoImpossibility lines 72-99: the comparison of the stored location
\* `last` with the location loc resolved at instant t
RiskTier(last, loc, t) ==
  LET distance   == calculateDistance(last.loc, loc)
      timeDiff   == t - last.ts
      impossible == timeDiff < getMinTravelTime(distance)
                      /\ distance > ImpossibleMinKm
      risk == IF impossible THEN 95
              ELSE IF distance > 3000 /\ timeDiff < 3600000 THEN 75
              ELSE IF CountryOf(last.loc) # CountryOf(loc) THEN 40
              ELSE IF distance > 100 THEN 20
              ELSE 0
  IN [isImpossible |-> impossible, riskScore |-> risk]

\* checkGeoImpossibility: the result, and in `write` the value it stores as
\* the last known location (NoLocation: it stores nothing).
checkGeoImpossibility(u, ip) ==
  LET loc  == GeoLookup(ip)
      last == LastLocationOf(u)
      cur  == [set |-> TRUE, loc |-> loc, ts |-> now]
  IN IF loc = NoGeo
       THEN [isImpossible |-> FALSE, riskScore |-> 0, currentLocation |-> Undef,
             lastLocation |-> NoLocation, write |-> NoLocation]
     ELSE IF ~last.set
       THEN [isImpossible |-> FALSE, riskScore |-> 0, currentLocation |-> loc,
             lastLocation |-> NoLocation, write |-> cur]
     ELSE
       LET tier == RiskTier(last, loc, now)
       IN [isImpossible |-> tier.isImpossible, riskScore |-> tier.riskScore,
           currentLocation |-> loc, lastLocation |-> last,
           write |-> LocationWritten(tier.isImpossible, cur)]

----------------------------------------------------------------------------
\* Device trust scorer
\* A device record.  createdAt is a clock reading; a record that existed
\* when the run starts was created bornDays whole days before clock zero.
NoDevice == [present |-> FALSE, createdAt |-> 0, lastLogin |-> 0, bornDays |-> 0]
NoFailed == [n |-> 0, setAt |-> 0]

\* Device.findOne({userId, deviceId})
FindDevice(u, d) == devices[<<u, d>>]

getLoginFrequencyScore(d) ==
  LET count == loginCount[d]
  IN IF count >= 50 THEN 20
     ELSE IF count >= 30 THEN 15
     ELSE IF count >= 15 THEN 10
     ELSE IF count >= 5 THEN 5
     ELSE 0

getDeviceAgeScore(u, d) ==
  LET device == FindDevice(u, d)
  IN IF ~device.present THEN 0
     ELSE LET wholeDays == device.bornDays + (now - device.createdAt) \div DayMs
          IN IF wholeDays >= 180 THEN 15
             ELSE IF wholeDays >= 90 THEN 12
             ELSE IF wholeDays >= 30 THEN 8
             ELSE IF wholeDays >= 7 THEN 4
             ELSE 0

\* getGeoConsistencyScore counting the new country among the recorded ones
getGeoConsistencyScore_CountAfterAdd(d, ip) ==
  LET loc  == GeoLookup(ip)
      seen == countries[d]
      n    == Cardinality(seen)
  IN IF loc = NoGeo THEN [score |-> 0, countries |-> seen]
     ELSE IF n = 0 THEN [score |-> 10, countries |-> {CountryOf(loc)}]
     ELSE IF CountryOf(loc) \in seen
       THEN [score |-> IF n = 1 THEN 25 ELSE IF n = 2 THEN 15 ELSE 5,
             countries |-> seen]
     ELSE [score |-> IF n + 1 > 3 THEN -10 ELSE 0,
           countries |-> seen \cup {CountryOf(loc)}]

\* getGeoConsistencyScore: the score and the country set it leaves behind
getGeoConsistencyScore(d, ip) ==
  LET loc  == GeoLookup(ip)
      seen == countries[d]
      n    == Cardinality(seen)
  IN IF loc = NoGeo THEN [score |-> 0, countries |-> seen]
     ELSE IF n = 0 THEN [score |-> 10, countries |-> {CountryOf(loc)}]
     ELSE IF CountryOf(loc) \in seen
       THEN [score |-> IF n = 1 THEN 25 ELSE IF n = 2 THEN 15 ELSE 5,
             countries |-> seen]
     ELSE [score |-> IF n > 3 THEN -10 ELSE 0,
           countries |-> seen \cup {CountryOf(loc)}]

\* redis.get of device:<d>:failed_attempts
FailedCount(d) == failedAttempts[d].n

getFailedAttemptsScore(d) ==
  LET failures == FailedCount(d)
  IN IF failures = 0 THEN 0
     ELSE IF failures <= 2 THEN -5
     ELSE IF failures <= 5 THEN -15
     ELSE -30

\* new Date().getHours(): the server's local hour, an input of each request
Hours == {3, 12}
getSuspiciousHoursScore(hour) == IF hour >= 2 /\ hour <= 6 THEN -10 ELSE 0

getDeviceSharingScore(d) ==
  LET n == Cardinality(deviceUsers[d])
  IN IF n <= 1 THEN 0 ELSE IF n = 2 THEN -10 ELSE -25

\* getVPNScore: the ip starts with "10.", "172.16." or "192.168."
IsPrivateIp(ip) == ip = "ipLAN"
getVPNScore(ip) == IF IsPrivateIp(ip) THEN -15 ELSE 0

getTrustLevel(score) ==
  IF score >= 80 THEN "HIGH"
  ELSE IF score >= 60 THEN "MEDIUM"
  ELSE IF score >= 40 THEN "LOW"
  ELSE "CRITICAL"

\* The clamp with its lower bound left out
Clamp_UpperOnly(sum) == Min(100, sum)

\* calculateTrustScore line 228
Clamp(sum) == Max(0, Min(100, sum))

\* calculateTrustScore: the returned score and level, the value stored in the
\* trust cache and the country set after the geo-consistency step.
calculateTrustScore(u, d, ip, hour) ==
  LET geo == getGeoConsistencyScore(d, ip)
      sum == BaseTrustScore
               + getLoginFrequencyScore(d)
               + getDeviceAgeScore(u, d)
               + geo.score
               + getFailedAttemptsScore(d)
               + getSuspiciousHoursScore(hour)
               + getDeviceSharingScore(d)
               + getVPNScore(ip)
      score == Clamp(sum)
  IN [score |-> score, level |-> getTrustLevel(score), stored |-> score,
      countries |-> geo.countries]

----------------------------------------------------------------------------
\* Session registry (sessionHelpers).  The helpers are functions of the
\* registry R = [s |-> session records, i |-> per-user index sets].  Both
\* writers of a session key (createSession, updateActivity) set lastActivity
\* to Date.now() and the key's expiry to 24 h in the same call, so the key
\* expires 24 h after its lastActivity.
NoToken   == [u |-> "-", d |-> "-", iat |-> 0]
NoSession == [present |-> FALSE, token |-> NoToken, deviceId |-> "-",
              userId |-> "-", createdAt |-> 0, lastActivity |-> 0,
              metadata |-> [ipAddress |-> "-"]]

\* The metadata login passes to createSession (lines 205-210)
LoginMetadata(d) == [ipAddress |-> FingerprintOf(d).ip]

Registry == [s |-> sessions, i |-> userSessions]

\* jwt.sign({userId, deviceId, email}, secret, {expiresIn: "24h"}): the
\* payload carries iat in whole seconds
SignToken(u, d) == [u |-> u, d |-> d, iat |-> now \div 1000]

getSession(R, u, d) == R.s[<<u, d>>]

\* createSession keeping the record of a key that already has one
createSession_KeepExisting(R, u, d, token, metadata) ==
  [s |-> [R.s EXCEPT ![<<u, d>>] =
            IF @.present THEN @
            ELSE [present |-> TRUE, token |-> token, deviceId |-> d, userId |-> u,
                  createdAt |-> now, lastActivity |-> now, metadata |-> metadata]],
   i |-> [R.i EXCEPT ![u] = @ \cup {d}]]

createSession(R, u, d, token, metadata) ==
  [s |-> [R.s EXCEPT ![<<u, d>>] =
            [present |-> TRUE, token |-> token, deviceId |-> d, userId |-> u,
             createdAt |-> now, lastActivity |-> now, metadata |-> metadata]],
   i |-> [R.i EXCEPT ![u] = @ \cup {d}]]

\* deleteSession removing every session of the user
deleteSession_AllOfUser(R, u, d) ==
  [s |-> [k \in DOMAIN R.s |-> IF k[1] = u THEN NoSession ELSE R.s[k]],
   i |-> [R.i EXCEPT ![u] = {}]]

deleteSession(R, u, d) ==
  [s |-> [R.s EXCEPT ![<<u, d>>] = NoSession],
   i |-> [R.i EXCEPT ![u] = @ \ {d}]]

\* updateActivity writing a fresh record instead of the one it read
updateActivity_Recreate(R, u, d) ==
  IF getSession(R, u, d).present
    THEN [R EXCEPT !.s[<<u, d>>] = [@ EXCEPT !.lastActivity = now, !.createdAt = now]]
    ELSE R

updateActivity(R, u, d) ==
  IF getSession(R, u, d).present
    THEN [R EXCEPT !.s[<<u, d>>] = [@ EXCEPT !.lastActivity = now]]
    ELSE R

validateSession(R, u, d, token) ==
  getSession(R, u, d).present /\ getSession(R, u, d).token = token

\* getUserSessions.  Index entries without a session record are removed;
\* the sessions found are returned sorted by createdAt.  The order of
\* smembers is arbitrary and the sort is stable, so sessions created in the
\* same millisecond come in any order.
ActiveDevices(R, u) == {d \in R.i[u] : getSession(R, u, d).present}

\* getUserSessions without the srem of stale references
PruneIndex_KeepStale(R, u) == R

PruneIndex(R, u) == [R EXCEPT !.i[u] = ActiveDevices(R, u)]

Snapshot(R, u, d) ==
  [deviceId |-> d, createdAt |-> getSession(R, u, d).createdAt,
   lastActivity |-> getSession(R, u, d).lastActivity]

\* The list ordered by lastActivity instead of createdAt
SortedByLastActivity(snaps) ==
  {q \in [1..Cardinality(snaps) -> snaps] :
     /\ \A a, b \in 1..Cardinality(snaps) : a # b => q[a] # q[b]
     /\ \A a, b \in 1..Cardinality(snaps) :
          a < b => q[a].lastActivity <= q[b].lastActivity}

SortedByCreatedAt(snaps) ==
  {q \in [1..Cardinality(snaps) -> snaps] :
     /\ \A a, b \in 1..Cardinality(snaps) : a # b => q[a] # q[b]
     /\ \A a, b \in 1..Cardinality(snaps) :
          a < b => q[a].createdAt <= q[b].createdAt}

getUserSessions(R, u) ==
  SortedByCreatedAt({Snapshot(R, u, d) : d \in ActiveDevices(R, u)})

\* blockUser / checkUserBlocked (blocked:<u>, value "1" with an expiry)
blockUser(b, u, seconds) == [b EXCEPT ![u] = now + seconds * 1000]

\* checkUserBlocked finding no block
checkUserBlocked_Never(b, u) == FALSE

checkUserBlocked(b, u) == b[u] > 0

----------------------------------------------------------------------------
\* Alert rules engine.  A context is a record; a numeric field that the
\* caller left undefined is the empty set, a defined one a singleton (every
\* comparison with undefined is false in the source language).
RuleIds ==
  <<"geo_impossibility", "trust_score_critical", "device_sharing",
    "multiple_failed_logins", "session_limit_exceeded", "unusual_login_hours",
    "vpn_detected", "rapid_location_changes", "new_device_high_risk",
    "account_takeover_attempt">>

\* The rule table with geo_impossibility lacking its block_session action
RuleActions_GeoNoBlock(id) ==
  CASE id = "geo_impossibility"        -> <<"email", "slack">>
    [] id = "trust_score_critical"     -> <<"email", "slack">>
    [] id = "device_sharing"           -> <<"email", "flag">>
    [] id = "multiple_failed_logins"   -> <<"email", "temporary_block">>
    [] id = "session_limit_exceeded"   -> <<"email">>
    [] id = "unusual_login_hours"      -> <<"log">>
    [] id = "vpn_detected"             -> <<"email", "flag">>
    [] id = "rapid_location_changes"   -> <<"email", "slack", "flag">>
    [] id = "new_device_high_risk"     -> <<"email">>
    [] id = "account_takeover_attempt" -> <<"email", "slack", "temporary_block">>

RuleActions(id) ==
  CASE id = "geo_impossibility"        -> <<"email", "slack", "block_session">>
    [] id = "trust_score_critical"     -> <<"email", "slack">>
    [] id = "device_sharing"           -> <<"email", "flag">>
    [] id = "multiple_failed_logins"   -> <<"email", "temporary_block">>
    [] id = "session_limit_exceeded"   -> <<"email">>
    [] id = "unusual_login_hours"      -> <<"log">>
    [] id = "vpn_detected"             -> <<"email", "flag">>
    [] id = "rapid_location_changes"   -> <<"email", "slack", "flag">>
    [] id = "new_device_high_risk"     -> <<"email">>
    [] id = "account_takeover_attempt" -> <<"email", "slack", "temporary_block">>

Lt(a, n) == \E x \in a : x < n
Gt(a, n) == \E x \in a : x > n
Ge(a, n) == \E x \in a : x >= n

\* rule.condition(context) for a context that is an object
RuleCondition(id, ctx, hour) ==
  CASE id = "geo_impossibility"        -> ctx.geoImpossible
    [] id = "trust_score_critical"     -> Lt(ctx.trustScore, 40)
    [] id = "device_sharing"           -> Gt(ctx.deviceUserCount, 2)
    [] id = "multiple_failed_logins"   -> Ge(ctx.failedAttempts, 5)
    [] id = "session_limit_exceeded"   ->
         \E a \in ctx.activeSessions, m \in ctx.maxSessions : a > m
    [] id = "unusual_login_hours"      -> hour >= 2 /\ hour <= 5
    [] id = "vpn_detected"             -> ctx.isVPN
    [] id = "rapid_location_changes"   -> Gt(ctx.locationChangeCount, 3)
    [] id = "new_device_high_risk"     -> ctx.isNewDevice /\ Lt(ctx.trustScore, 50)
    [] id = "account_takeover_attempt" -> ctx.passwordChanged /\ Lt(ctx.trustScore, 60)

\* rule.condition(context) throws: every condition but the hour rule's reads
\* a property of the context, a TypeError when the context is null
ConditionThrows(id, ctx) == ctx.isNull /\ id # "unusual_login_hours"

\* Building the alert throws: the message and the context snapshot read
\* properties of the context; the device_sharing message calls
\* context.deviceId.substring
BuildThrows(id, ctx) ==
  ctx.isNull \/ (id = "device_sharing" /\ ctx.deviceId = Undef)

AlertCap == 1000
AlertRetentionSeconds == 604800
FlagSeconds == 2592000

\* The trim taking the entries of highest score away
RECURSIVE TrimIndex_DropNewest(_)
TrimIndex_DropNewest(keys) ==
  IF Cardinality(keys) <= AlertCap THEN keys
  ELSE TrimIndex_DropNewest(keys \ {CHOOSE k \in keys : \A j \in keys : k >= j})

\* zremrangebyrank("alerts:sorted", 0, -1001): all but the 1000 entries of
\* highest score go, lowest score first.  An entry is identified by its key,
\* alerts:<ms>, and its score is the millisecond of the same call.
RECURSIVE TrimIndex(_)
TrimIndex(keys) ==
  IF Cardinality(keys) <= AlertCap THEN keys
  ELSE TrimIndex(keys \ {CHOOSE k \in keys : \A j \in keys : k <= j})

\* storeAlert: setex alerts:<Date.now()>, zadd alerts:sorted, trim to the
\* last 1000 by rank
storeAlert(st, id, ctx) ==
  LET key    == now
      rec    == [key |-> key, ruleId |-> id, userId |-> ctx.userId]
      stored == {a \in st.alertStore : a.key # key} \cup {rec}
      added  == st.alertSorted \cup {key}
  IN [st EXCEPT !.alertStore = stored, !.alertSorted = TrimIndex(added)]

\* getRecentAlerts(limit): the records found under the `limit` keys of
\* highest score in alerts:sorted
getRecentAlerts(limit) ==
  {a \in alertStore :
     /\ a.key \in alertSorted
     /\ Cardinality({j \in alertSorted : j > a.key}) < limit}

\* isUserFlagged, on the flag store (the live user:<id>:flagged keys, each
\* with the time of its setex, and the members of the set flagged_users):
\* null for a user outside flagged_users, else the flag data of the user's
\* key or, without a key, {flagged: true}
isUserFlagged(userId) ==
  IF userId \notin flagged.members THEN "null"
  ELSE IF \E k \in flagged.keys : k.id = userId THEN "flagData"
  ELSE "flagged"

\* flagUser: setex user:<id>:flagged, then sadd flagged_users with
\* userId.toString(), a TypeError when userId is undefined
flagUser(st, userId) ==
  LET keys == {k \in st.flagged.keys : k.id # userId}
                \cup {[id |-> userId, setAt |-> now]}
  IN IF userId = Undef
       THEN [st EXCEPT !.flagged.keys = keys, !.threw = TRUE]
       ELSE [st EXCEPT !.flagged.keys = keys,
                       !.flagged.members = @ \cup {userId}]

\* One case of executeActions' switch, inside its try/catch.  `faults` holds
\* the <<rule, action>> pairs whose store call fails.
ExecAction(st, id, action, ctx, faults) ==
  LET s0 == [st EXCEPT !.threw = FALSE]
      s1 ==
        IF <<id, action>> \in faults THEN [s0 EXCEPT !.threw = TRUE]
        ELSE CASE action = "block_session" ->
                    IF ctx.userId \in Users /\ ctx.deviceId \in Devices
                      THEN [s0 EXCEPT !.R = deleteSession(@, ctx.userId, ctx.deviceId)]
                      ELSE s0
               [] action = "temporary_block" ->
                    IF ctx.userId \in Users
                      THEN [s0 EXCEPT !.blocked = blockUser(@, ctx.userId, BlockSeconds)]
                      ELSE s0
               [] action = "flag" -> flagUser(s0, ctx.userId)
               [] OTHER -> s0
  IN [s1 EXCEPT !.log = Append(@, [rule |-> id, action |-> action,
                                   threw |-> s1.threw]),
                !.threw = FALSE]

\* executeActions without the try/catch around the switch: the first
\* failing action ends the loop and the error reaches evaluateRules' catch
RECURSIVE executeActions_NoCatch(_, _, _, _, _, _)
executeActions_NoCatch(st, id, actions, k, ctx, faults) ==
  IF k > Len(actions) THEN st
  ELSE LET s1 == ExecAction(st, id, actions[k], ctx, faults)
       IN IF s1.log[Len(s1.log)].threw
            THEN [s1 EXCEPT !.threw = TRUE]
            ELSE executeActions_NoCatch(s1, id, actions, k + 1, ctx, faults)

RECURSIVE executeActions(_, _, _, _, _, _)
executeActions(st, id, actions, k, ctx, faults) ==
  IF k > Len(actions) THEN st
  ELSE executeActions(ExecAction(st, id, actions[k], ctx, faults),
                      id, actions, k + 1, ctx, faults)

\* The body of evaluateRules' loop for one rule, inside its try/catch: an
\* error of the condition, of the alert's construction, of executeActions
\* (st.threw on its return) or of storeAlert ends the rule in the catch
EvaluateRule(st, id, ctx, hour, faults) ==
  IF ConditionThrows(id, ctx) THEN [st EXCEPT !.errs = @ \cup {id}]
  ELSE IF ~RuleCondition(id, ctx, hour) THEN st
  ELSE IF BuildThrows(id, ctx) THEN [st EXCEPT !.errs = @ \cup {id}]
  ELSE LET acted == executeActions(st, id, RuleActions(id), 1, ctx, faults)
       IN IF acted.threw
            THEN [acted EXCEPT !.errs = @ \cup {id}, !.threw = FALSE]
          ELSE IF <<id, "store">> \in faults
            THEN [acted EXCEPT !.errs = @ \cup {id}]
            ELSE [storeAlert(acted, id, ctx) EXCEPT !.alerts = Append(@, id)]

\* The loop over the rule table run from its last rule to its first
RECURSIVE EvaluateFrom_LastFirst(_, _, _, _, _)
EvaluateFrom_LastFirst(st, k, ctx, hour, faults) ==
  IF k > Len(RuleIds) THEN st
  ELSE EvaluateRule(EvaluateFrom_LastFirst(st, k + 1, ctx, hour, faults),
                    RuleIds[k], ctx, hour, faults)

RECURSIVE EvaluateFrom(_, _, _, _, _)
EvaluateFrom(st, k, ctx, hour, faults) ==
  IF k > Len(RuleIds) THEN st
  ELSE EvaluateFrom(EvaluateRule(st, RuleIds[k], ctx, hour, faults),
                    k + 1, ctx, hour, faults)

\* The part of the store the engine writes, with the outcome of one call:
\* alerts returned, actions run, rules whose evaluation was caught.
EngineState(R, b) ==
  [R |-> R, blocked |-> b, flagged |-> flagged, alertStore |-> alertStore,
   alertSorted |-> alertSorted, alerts |-> <<>>, log |-> <<>>, errs |-> {},
   threw |-> FALSE]

evaluateRules(st, ctx, hour, faults) == EvaluateFrom(st, 1, ctx, hour, faults)

\* Contexts, failing store calls and the record of one call
CtxBase ==
  [isNull |-> FALSE, userId |-> "u1", deviceId |-> "dA", geoImpossible |-> FALSE,
   trustScore |-> {72}, deviceUserCount |-> {}, failedAttempts |-> {},
   activeSessions |-> {}, maxSessions |-> {}, isVPN |-> FALSE,
   locationChangeCount |-> {}, isNewDevice |-> FALSE, passwordChanged |-> FALSE]

NullContext == [CtxBase EXCEPT !.isNull = TRUE, !.userId = Undef, !.deviceId = Undef]

CtxFields == {"geo", "lowTrust", "sharing", "failed", "overLimit", "night",
              "vpn", "rapid", "newDevice", "passwordChanged"}

CtxWith(T, u, d) ==
  [CtxBase EXCEPT
     !.userId = u, !.deviceId = d,
     !.geoImpossible = "geo" \in T,
     !.trustScore = IF "lowTrust" \in T THEN {35} ELSE {72},
     !.deviceUserCount = IF "sharing" \in T THEN {3} ELSE {},
     !.failedAttempts = IF "failed" \in T THEN {5} ELSE {},
     !.activeSessions = IF "overLimit" \in T THEN {3} ELSE {},
     !.maxSessions = IF "overLimit" \in T THEN {2} ELSE {},
     !.isVPN = "vpn" \in T,
     !.locationChangeCount = IF "rapid" \in T THEN {4} ELSE {},
     !.isNewDevice = "newDevice" \in T,
     !.passwordChanged = "passwordChanged" \in T]

\* The calls: a context and the hour of the day at which the call is made
AlertCalls ==
  {[ctx |-> NullContext, hour |-> h] : h \in Hours} \cup
  {[ctx |-> CtxWith(T, "u1", "dA"), hour |-> IF "night" \in T THEN 3 ELSE 12] :
     T \in {X \in SUBSET CtxFields : Cardinality(X) <= 2}} \cup
  {[ctx |-> CtxWith(T, Undef, Undef), hour |-> 12] :
     T \in {X \in SUBSET CtxFields : Cardinality(X) = 1}}

\* The store calls that can fail: the Redis calls of block_session,
\* temporary_block, flag and storeAlert ("store").  The mail and Slack
\* senders catch their own errors.
FaultPoints ==
  {<<"geo_impossibility", "block_session">>, <<"geo_impossibility", "store">>,
   <<"device_sharing", "flag">>, <<"multiple_failed_logins", "temporary_block">>,
   <<"rapid_location_changes", "flag">>}

FaultSets ==
  {{}, {<<"geo_impossibility", "block_session">>},
   {<<"geo_impossibility", "store">>}, FaultPoints}

NoEval ==
  [calls |-> 0, ctx |-> NullContext, hour |-> 0, faults |-> {},
   hadSession |-> FALSE, alerts |-> <<>>, log |-> <<>>, errs |-> {}]

----------------------------------------------------------------------------
\* MongoDB Session collection.  Every query of the program names userId and
\* deviceId, so the collection is kept as the documents of each (userId,
\* deviceId) in insertion order.  Session.create({userId, deviceId, token}):
\* isActive defaults to true (models/Session.js).
SessionCreate(docs, u, d, token) ==
  [docs EXCEPT ![<<u, d>>] = Append(@, [token |-> token, isActive |-> TRUE])]

\* Session.updateOne(filter, {isActive: false}) with the filter {userId,
\* deviceId} (login line 191, terminateSession line 377) or {userId, deviceId,
\* isActive: true} (logout line 303): the first matching document, in
\* insertion order, is updated and no other.
SessionUpdateOne(docs, u, d, activeOnly) ==
  LET mine == docs[<<u, d>>]
      hits == {k \in 1..Len(mine) : activeOnly => mine[k].isActive}
  IN IF hits = {} THEN docs
     ELSE [docs EXCEPT ![<<u, d>>][CHOOSE k \in hits : \A j \in hits : k <= j].isActive
                         = FALSE]

\* Login controller.  World is the part of the stores a handler may write;
\* a handler is a function from the world to a set of outcomes [w, resp].
World ==
  [R |-> Registry, blocked |-> blocked, lastLocation |-> lastLocation,
   trustCache |-> trustCache, countries |-> countries, loginCount |-> loginCount,
   failedAttempts |-> failedAttempts, deviceUsers |-> deviceUsers,
   alertStore |-> alertStore, alertSorted |-> alertSorted, flagged |-> flagged,
   devices |-> devices, otpMails |-> otpMails, sessionDocs |-> sessionDocs]

NoResp ==
  [op |-> "none", email |-> "-", device |-> "-", hour |-> 0, status |-> 0,
   body |-> "-", token |-> NoToken, activeSessions |-> 0, maxSessions |-> 0,
   trust |-> -1, alerts |-> <<>>, actions |-> <<>>, active |-> <<>>,
   passwordOk |-> FALSE, lastLocation |-> NoLocation, target |-> "-"]

Response(op, e, d, hour, status, body) ==
  [NoResp EXCEPT !.op = op, !.email = e, !.device = d, !.hour = hour,
                 !.status = status, !.body = body]

\* evaluateRules run against the world w; the engine's writes are folded
\* back into the world
RunRules(w, ctx, hour, faults) ==
  LET st == evaluateRules(
              [R |-> w.R, blocked |-> w.blocked, flagged |-> w.flagged,
               alertStore |-> w.alertStore, alertSorted |-> w.alertSorted,
               alerts |-> <<>>, log |-> <<>>, errs |-> {}, threw |-> FALSE],
              ctx, hour, faults)
  IN [w |-> [w EXCEPT !.R = st.R, !.blocked = st.blocked, !.flagged = st.flagged,
                      !.alertStore = st.alertStore, !.alertSorted = st.alertSorted],
      alerts |-> st.alerts, log |-> st.log, errs |-> st.errs]

\* The alert context assembled without the result of the geo check
LoginContext_NoGeoCheck(u, d, geoCheck) ==
  [isNull |-> FALSE, userId |-> u, deviceId |-> d,
   geoImpossible |-> FALSE, trustScore |-> {50},
   deviceUserCount |-> {}, failedAttempts |-> {}, activeSessions |-> {},
   maxSessions |-> {}, isVPN |-> FALSE, locationChangeCount |-> {},
   isNewDevice |-> FALSE, passwordChanged |-> FALSE]

\* login lines 80-89: the alert context as first assembled
LoginContext(u, d, geoCheck) ==
  [isNull |-> FALSE, userId |-> u, deviceId |-> d,
   geoImpossible |-> geoCheck.isImpossible, trustScore |-> {50},
   deviceUserCount |-> {}, failedAttempts |-> {}, activeSessions |-> {},
   maxSessions |-> {}, isVPN |-> FALSE, locationChangeCount |-> {},
   isNewDevice |-> FALSE, passwordChanged |-> FALSE]

\* login lines 98-103 and 142-147: generateOTP, user.otp = otp, user.save(),
\* sendOTPEmail.  userSchema declares no otp or otpExpiry path, so save()
\* persists neither; what leaves the process is the mail.
IssueOtp(w, u) == [w EXCEPT !.otpMails[u] = @ + 1]

\* login line 124 reads the binding `device`, which `let` declares at line
\* 132 of the same block: the read is in the binding's dead zone and throws
\* a ReferenceError, which the handler's catch (line 236) turns into a 500.
DeviceReadThrows == TRUE

\* The stage with the eviction test written `>` for `>=`
SessionEnforcement_EvictPastMax(R, u, d, active, maxSessions, token) ==
  LET pruned  == PruneIndex(R, u)
      evicted == IF Len(active) > maxSessions
                   THEN deleteSession(pruned, u, active[1].deviceId)
                   ELSE pruned
  IN createSession(evicted, u, d, token, LoginMetadata(d))

\* login lines 179-210 run in one piece on registry R with the session list
\* `active` that getUserSessions returned: evict the oldest when the list
\* has reached the plan maximum, then create the new session.
SessionEnforcement(R, u, d, active, maxSessions, token) ==
  LET pruned  == PruneIndex(R, u)
      evicted == IF Len(active) >= maxSessions
                   THEN deleteSession(pruned, u, active[1].deviceId)
                   ELSE pruned
  IN createSession(evicted, u, d, token, LoginMetadata(d))

\* login lines 126-234, reached only if line 124 returns
LoginAfterTrust(w, plan, u, d, hour, ctx0, trustScore) ==
  LET device == w.devices[<<u, d>>]
      ctx    == [ctx0 EXCEPT !.trustScore = {trustScore.score},
                             !.isNewDevice = ~device.present,
                             !.deviceUserCount = {Cardinality(w.deviceUsers[d])}]
      first  == IF device.present
                  THEN [w |-> w, alerts |-> <<>>, log |-> <<>>, errs |-> {}]
                  ELSE RunRules(w, ctx, hour, {})
  IN IF ~device.present /\ trustScore.score < OtpTrustThreshold
       THEN {[w |-> IssueOtp(first.w, u),
              resp |-> [Response("login", u, d, hour, 200, "otpRequired")
                          EXCEPT !.trust = trustScore.score,
                                 !.alerts = first.alerts, !.actions = first.log]]}
     ELSE
       LET w1 == IF device.present THEN first.w
                 ELSE [first.w EXCEPT !.devices[<<u, d>>] =
                         [present |-> TRUE, createdAt |-> now, lastLogin |-> now, bornDays |-> 0]]
           second == RunRules(w1, ctx, hour, {})
           w2 == [second.w EXCEPT !.devices[<<u, d>>].lastLogin = now,
                                  !.loginCount[d] = @ + 1,
                                  !.deviceUsers[d] = @ \cup {u}]
           maxSessions == getMaxSessions(plan)
           token == SignToken(u, d)
       IN {[w |-> [w2 EXCEPT !.R = SessionEnforcement(@, u, d, active,
                                                      maxSessions, token),
                             !.sessionDocs =
                               SessionCreate(
                                 IF Len(active) >= maxSessions
                                   THEN SessionUpdateOne(@, u, active[1].deviceId, FALSE)
                                   ELSE @,
                                 u, d, token)],
            resp |-> [Response("login", u, d, hour, 200, "token")
                        EXCEPT !.token = token, !.trust = trustScore.score,
                               !.activeSessions = Len(active) + 1,
                               !.maxSessions = maxSessions,
                               !.active = active,
                               !.alerts = first.alerts \o second.alerts,
                               !.actions = first.log \o second.log]]
           : active \in getUserSessions(w2.R, u)}

\* The credential check with the password comparison left out
CredentialsRejected_UnknownOnly(e, passwordOk) == e \notin Users

\* login lines 47-55: User.findOne({email}) finds nothing, or bcrypt.compare
\* is false
CredentialsRejected(e, passwordOk) == e \notin Users \/ ~passwordOk

\* exports.login (lines 42-240) for a registered user u whose password
\* matched, from the trust-score stage on.  throws: the read at line 124
\* throws.
LoginFromTrust(w, plan, u, d, hour, ctx0, throws) ==
  LET ip == FingerprintOf(d).ip
      trustScore == calculateTrustScore(u, d, ip, hour)
      w1 == [w EXCEPT !.trustCache[<<u, d>>] = trustScore.stored,
                      !.countries[d] = trustScore.countries]
  IN IF throws
       THEN {[w |-> w1, resp |-> Response("login", u, d, hour, 500, "Login failed")]}
       ELSE LoginAfterTrust(w1, plan, u, d, hour, ctx0, trustScore)

\* exports.login from the geo check on (lines 75-234)
LoginFromGeo(w, plan, e, d, hour, throws) ==
  LET ip == FingerprintOf(d).ip
      geoCheck == checkGeoImpossibility(e, ip)
      w1 == IF geoCheck.write.set
              THEN [w EXCEPT !.lastLocation[e] = geoCheck.write]
              ELSE w
      ctx0 == LoginContext(e, d, geoCheck)
  IN IF geoCheck.isImpossible
       THEN LET ran == RunRules(w1, ctx0, hour, {})
            IN {[w |-> IssueOtp(ran.w, e),
                 resp |-> [Response("login", e, d, hour, 200, "otpRequired")
                             EXCEPT !.alerts = ran.alerts,
                                    !.actions = ran.log]]}
       ELSE LoginFromTrust(w1, plan, e, d, hour, ctx0, throws)

login(w, plan, e, passwordOk, d, hour) ==
  IF CredentialsRejected(e, passwordOk)
    THEN {[w |-> w, resp |-> Response("login", e, d, hour, 400, "Invalid credentials")]}
  ELSE
    LET spoofingCheck == detectSpoofing(FingerprintOf(d))
    IN IF SpoofRejects(spoofingCheck)
         THEN {[w |-> [w EXCEPT !.blocked = blockUser(@, e, BlockSeconds)],
                resp |-> Response("login", e, d, hour, 403,
                                  "Suspicious activity detected")]}
       ELSE LoginFromGeo(w, plan, e, d, hour, DeviceReadThrows)

\* userSchema (models/User.js) has the paths email, password and plan only:
\* the otp and otpExpiry that login assigns are not saved, and the document
\* verifyOtp loads has both undefined.
StoredOtpDefined == FALSE

\* exports.verifyOtp.  otpGiven: the request body has an otp field.  With
\* user.otp undefined, `user.otp !== otp` is false only for a request without
\* otp, and `user.otpExpiry < Date.now()` is false.
verifyOtp(w, e, otpGiven, d) ==
  IF e \notin Users
    THEN [w |-> w, resp |-> Response("verifyOtp", e, d, 0, 400, "User not found")]
  ELSE IF otpGiven # StoredOtpDefined
    THEN [w |-> [w EXCEPT !.failedAttempts[d] = [n |-> @.n + 1, setAt |-> now]],
          resp |-> Response("verifyOtp", e, d, 0, 400, "Invalid or expired OTP")]
  ELSE
    [w |-> [w EXCEPT !.devices[<<e, d>>] =
                       IF @.present THEN @
                       ELSE [present |-> TRUE, createdAt |-> now, lastLogin |-> now, bornDays |-> 0],
                     !.loginCount[d] = @ + 1,
                     !.deviceUsers[d] = @ \cup {e}],
     resp |-> Response("verifyOtp", e, d, 0, 200, "OTP verified")]

\* checkBlockedMiddleware in front of /login and /verify-otp
BlockedResponse(op, e, d, hour) ==
  Response(op, e, d, hour, 403, "Account temporarily suspended")

----------------------------------------------------------------------------
\* State changes

Commit(o) ==
  /\ sessions' = o.w.R.s
  /\ userSessions' = o.w.R.i
  /\ blocked' = o.w.blocked
  /\ lastLocation' = o.w.lastLocation
  /\ trustCache' = o.w.trustCache
  /\ countries' = o.w.countries
  /\ loginCount' = o.w.loginCount
  /\ failedAttempts' = o.w.failedAttempts
  /\ deviceUsers' = o.w.deviceUsers
  /\ alertStore' = o.w.alertStore
  /\ alertSorted' = o.w.alertSorted
  /\ flagged' = o.w.flagged
  /\ devices' = o.w.devices
  /\ otpMails' = o.w.otpMails
  /\ sessionDocs' = o.w.sessionDocs
  /\ resp' = o.resp
  /\ issued' = IF o.resp.body = "token" THEN issued \cup {o.resp.token} ELSE issued
  /\ reqNo' = reqNo + 1

\* POST /api/auth/login: checkBlockedMiddleware, then the controller
LoginRequest(e, passwordOk, d, hour) ==
  /\ reqNo < MaxRequests
  /\ \E o \in IF e \in Users /\ checkUserBlocked(blocked, e)
                THEN {[w |-> World, resp |-> BlockedResponse("login", e, d, hour)]}
                ELSE login(World, IF e \in Users THEN userPlan[e] ELSE "BASIC",
                           e, passwordOk, d, hour) :
       Commit([o EXCEPT !.resp.passwordOk = passwordOk])
  /\ UNCHANGED <<fpState, signupState, clock, userPlan, procs, raced, evalOut>>

\* POST /api/auth/verify-otp: checkBlockedMiddleware, then the controller
VerifyOtpRequest(e, otpGiven, d) ==
  /\ reqNo < MaxRequests
  /\ Commit(IF e \in Users /\ checkUserBlocked(blocked, e)
              THEN [w |-> World, resp |-> BlockedResponse("verifyOtp", e, d, 0)]
              ELSE verifyOtp(World, e, otpGiven, d))
  /\ UNCHANGED <<fpState, signupState, clock, userPlan, procs, raced, evalOut>>

\* The clock advances; Redis drops the keys whose expiry has passed.
Tick(dt, maxTicks) ==
  /\ ticks < maxTicks
  /\ now' = now + dt
  /\ ticks' = ticks + 1
  /\ sessions' = [k \in DOMAIN sessions |->
                    IF sessions[k].present
                         /\ Live(sessions[k].lastActivity, SessionTTLSeconds, now + dt)
                      THEN sessions[k] ELSE NoSession]
  /\ blocked' = [u \in Users |-> IF blocked[u] > now + dt THEN blocked[u] ELSE 0]
  /\ lastLocation' = [u \in Users |->
                        IF lastLocation[u].set
                             /\ Live(lastLocation[u].ts, LastLocationSeconds, now + dt)
                          THEN lastLocation[u] ELSE NoLocation]
  /\ failedAttempts' = [d \in Devices |->
                          IF Live(failedAttempts[d].setAt, FailedAttemptsSeconds, now + dt)
                            THEN failedAttempts[d] ELSE NoFailed]
  /\ alertStore' = {a \in alertStore : Live(a.key, AlertRetentionSeconds, now + dt)}
  /\ flagged' = [flagged EXCEPT !.keys =
                   {k \in @ : (now + dt) \div 1000 - k.setAt \div 1000 < FlagSeconds}]
  /\ UNCHANGED <<fpState, signupState, sessionDocs, reqNo, userSessions, trustCache, countries, loginCount,
                 deviceUsers, alertSorted, devices, userPlan, issued, otpMails,
                 resp, procs, raced, evalOut>>

NoProc == [pc |-> "idle", u |-> "-", d |-> "-", active |-> <<>>]
Procs  == {"p1", "p2"}

InitServices ==
  /\ now = 0
  /\ ticks = 0
  /\ reqNo = 0
  /\ sessions = [k \in Users \X Devices |-> NoSession]
  /\ userSessions = [u \in Users |-> {}]
  /\ blocked = [u \in Users |-> 0]
  /\ lastLocation = [u \in Users |-> NoLocation]
  /\ trustCache = [k \in Users \X Devices |-> -1]
  /\ countries = [d \in Devices |-> {}]
  /\ loginCount = [d \in Devices |-> 0]
  /\ failedAttempts = [d \in Devices |-> NoFailed]
  /\ deviceUsers = [d \in Devices |-> {}]
  /\ alertStore = {}
  /\ devices = [k \in Users \X Devices |-> NoDevice]
  /\ issued = {}
  /\ otpMails = [u \in Users |-> 0]
  /\ resp = NoResp
  /\ procs = [p \in Procs |-> NoProc]
  /\ raced = [u \in Users |-> FALSE]
  /\ evalOut = NoEval
  /\ rlSignup = [ip \in {"ipDEL", "ipNYC"} |-> [hits |-> 0, setAt |-> 0]]
  /\ userEmails = Users
  /\ sessionDocs = [k \in Users \X Devices |-> <<>>]

InitStores ==
  /\ InitServices
  /\ alertSorted = {}
  /\ flagged = [keys |-> {}, members |-> {}]
  /\ components = NoComponents
  /\ fingerprint = NoFingerprint

\* The service as deployed: registered users u1 (STANDARD) and u2 (BASIC)
Init ==
  /\ InitStores
  /\ userPlan = [u \in Users |-> IF u = "u1" THEN "STANDARD" ELSE "BASIC"]

\* The requests sent in the whole-service runs
ReqDevices == {"dA", "dB", "dD", "dE"}

Next ==
  \/ \E e \in Emails, passwordOk \in BOOLEAN, d \in ReqDevices, hour \in Hours :
       LoginRequest(e, passwordOk, d, hour)
  \/ \E e \in Emails, otpGiven \in BOOLEAN, d \in ReqDevices :
       VerifyOtpRequest(e, otpGiven, d)
  \/ \E dt \in CoarseSteps : Tick(dt, MaxTicks)

Spec == Init /\ [][Next]_vars

----------------------------------------------------------------------------
\* The stages of login that follow line 124, run on their own.  In the
\* handler as written no login reaches them (DeviceReadThrows); here a login
\* of a registered user whose password matched and whose fingerprint the
\* spoof check let through runs from the geo check on (lines 75-234) with
\* the read of line 124 returning, as it does once `device` is declared
\* before that line.
FlowMaxRequests == 3
FlowMaxTicks    == 1

LoginPastDeviceRead(u, d, hour) ==
  /\ reqNo < FlowMaxRequests
  /\ \E o \in IF checkUserBlocked(blocked, u)
                THEN {[w |-> World, resp |-> BlockedResponse("login", u, d, hour)]}
                ELSE LoginFromGeo(World, userPlan[u], u, d, hour, FALSE) :
       Commit([o EXCEPT !.resp.passwordOk = TRUE])
  /\ UNCHANGED <<fpState, signupState, clock, userPlan, procs, raced, evalOut>>

NextFlow ==
  \/ \E d \in {"dA", "dB"}, hour \in Hours : LoginPastDeviceRead("u1", d, hour)
  \/ \E otpGiven \in BOOLEAN, d \in {"dA", "dB"} : VerifyOtpRequest("u1", otpGiven, d)
  \/ \E dt \in CoarseSteps : Tick(dt, FlowMaxTicks)

SpecFlow == Init /\ [][NextFlow]_vars

----------------------------------------------------------------------------
\* The session registry under concurrent requests.  Each request is a chain
\* of awaited store calls; other requests run between them.  A login that
\* has reached the SessionEnforcement stage (login line 179) is a process
\* with the steps read (getUserSessions), evict (deleteSession of the oldest)
\* and create (jwt.sign and createSession).

TokenExpired(tk) == now \div 1000 >= tk.iat + SessionTTLSeconds

\* login line 180-181
EnfRead(p) ==
  /\ procs[p].pc = "read"
  /\ \E active \in getUserSessions(Registry, procs[p].u) :
       procs' = [procs EXCEPT ![p].active = active,
                   ![p].pc = IF Len(active) >= getMaxSessions(userPlan[procs[p].u])
                               THEN "evict" ELSE "create"]
  /\ userSessions' = PruneIndex(Registry, procs[p].u).i
  /\ UNCHANGED <<fpState, signupState, sessionDocs, clock, reqNo, sessions, blocked, lastLocation, redisTrust,
                 redisAlert, devices, userPlan, issued, otpMails, resp, raced,
                 evalOut>>

\* The eviction step with the deleteSession call left out
EnfEvict_NoDelete(p) ==
  /\ procs[p].pc = "evict"
  /\ sessionDocs' = SessionUpdateOne(sessionDocs, procs[p].u,
                                      procs[p].active[1].deviceId, FALSE)
  /\ procs' = [procs EXCEPT ![p].pc = "create"]
  /\ UNCHANGED <<fpState, signupState, clock, reqNo, redisSess, blocked, lastLocation, redisTrust,
                 redisAlert, devices, userPlan, issued, otpMails, resp, raced,
                 evalOut>>

\* login lines 183-195
EnfEvict(p) ==
  /\ procs[p].pc = "evict"
  /\ LET R == deleteSession(Registry, procs[p].u, procs[p].active[1].deviceId)
     IN /\ sessions' = R.s
        /\ userSessions' = R.i
  /\ sessionDocs' = SessionUpdateOne(sessionDocs, procs[p].u,
                                      procs[p].active[1].deviceId, FALSE)
  /\ procs' = [procs EXCEPT ![p].pc = "create"]
  /\ UNCHANGED <<fpState, signupState, clock, reqNo, blocked, lastLocation, redisTrust, redisAlert,
                 devices, userPlan, issued, otpMails, resp, raced, evalOut>>

\* login lines 197-234
EnfCreate(p) ==
  /\ procs[p].pc = "create"
  /\ LET u == procs[p].u
         d == procs[p].d
         token == SignToken(u, d)
         R == createSession(Registry, u, d, token, LoginMetadata(d))
     IN /\ sessions' = R.s
        /\ userSessions' = R.i
        /\ issued' = issued \cup {token}
        /\ sessionDocs' = SessionCreate(sessionDocs, u, d, token)
        /\ resp' = [Response("login", u, d, 0, 200, "token")
                      EXCEPT !.token = token,
                             !.active = procs[p].active,
                             !.activeSessions = Len(procs[p].active) + 1,
                             !.maxSessions = getMaxSessions(userPlan[u])]
  /\ procs' = [procs EXCEPT ![p] = NoProc]
  /\ UNCHANGED <<fpState, signupState, clock, reqNo, blocked, lastLocation, redisTrust, redisAlert,
                 devices, userPlan, otpMails, raced, evalOut>>

\* A login of user u from device d arrives at the SessionEnforcement stage
EnfEnter(p, u, d) ==
  /\ reqNo < EnfMaxRequests
  /\ procs[p].pc = "idle"
  /\ procs' = [procs EXCEPT ![p] = [pc |-> "read", u |-> u, d |-> d, active |-> <<>>]]
  /\ raced' = [raced EXCEPT ![u] =
                 @ \/ \E q \in Procs \ {p} : procs[q].pc # "idle" /\ procs[q].u = u]
  /\ reqNo' = reqNo + 1
  /\ UNCHANGED <<fpState, signupState, sessionDocs, clock, redisSess, blocked, lastLocation, redisTrust, redisAlert,
                 devices, userPlan, issued, otpMails, resp, evalOut>>

\* authMiddleware followed by one of the protected controllers: logout,
\* getSessions, terminateSession(target).  tk is the bearer token.  logout
\* and terminateSession go on to Session.updateOne after deleteSession; for
\* logout the target is the token's own device.
AuthOps == {"logout", "getSessions", "terminate"}

AuthOutcome(R, tk, op, target) ==
  IF TokenExpired(tk)
    THEN [R |-> R, status |-> 401, body |-> "Token expired"]
  ELSE IF checkUserBlocked(blocked, tk.u)
    THEN [R |-> R, status |-> 403, body |-> "Account suspended"]
  ELSE IF ~validateSession(R, tk.u, tk.d, tk)
    THEN [R |-> R, status |-> 401, body |-> "Session expired or logged out"]
  ELSE
    LET R1 == updateActivity(R, tk.u, tk.d)
    IN CASE op = "logout" ->
              [R |-> deleteSession(R1, tk.u, tk.d), status |-> 200,
               body |-> "Logged out successfully"]
         [] op = "getSessions" ->
              [R |-> PruneIndex(R1, tk.u), status |-> 200, body |-> "sessions"]
         [] op = "terminate" ->
              IF target = tk.d
                THEN [R |-> R1, status |-> 400,
                      body |-> "Cannot terminate current session"]
                ELSE [R |-> deleteSession(R1, tk.u, target), status |-> 200,
                      body |-> "Session terminated successfully"]

AuthRequest(tk, op, target, maxRequests) ==
  /\ reqNo < maxRequests
  /\ LET o == AuthOutcome(Registry, tk, op, target)
     IN /\ sessions' = o.R.s
        /\ userSessions' = o.R.i
        /\ sessionDocs' =
             IF o.status # 200 \/ op = "getSessions" THEN sessionDocs
             ELSE SessionUpdateOne(sessionDocs, tk.u, target, op = "logout")
        /\ resp' = [Response(op, tk.u, tk.d, 0, o.status, o.body)
                      EXCEPT !.token = tk, !.target = target]
  /\ reqNo' = reqNo + 1
  /\ UNCHANGED <<fpState, signupState, clock, blocked, lastLocation, redisTrust, redisAlert, devices,
                 userPlan, issued, otpMails, procs, raced, evalOut>>

\* Only terminateSession reads the :deviceId path parameter
Targets(tk, op, ds) == IF op = "terminate" THEN ds ELSE {tk.d}

EnfUsers == {"u1"}
EnfDevices == {"dA", "dB", "dE"}
FineSteps == {1, DayMs}

EnfPlans == {"BASIC", "STANDARD"}

InitEnforce ==
  /\ InitStores
  /\ userPlan \in {f \in [Users -> EnfPlans] : \A u \in Users \ EnfUsers : f[u] = "BASIC"}

NextEnforce ==
  \/ \E p \in Procs, u \in EnfUsers, d \in EnfDevices : EnfEnter(p, u, d)
  \/ \E p \in Procs : EnfRead(p)
  \/ \E p \in Procs : EnfEvict(p)
  \/ \E p \in Procs : EnfCreate(p)
  \/ \E tk \in issued, op \in AuthOps : \E target \in Targets(tk, op, EnfDevices) :
       AuthRequest(tk, op, target, EnfMaxRequests)
  \/ \E dt \in FineSteps : Tick(dt, EnfMaxTicks)

SpecEnforce == InitEnforce /\ [][NextEnforce]_vars

----------------------------------------------------------------------------
\* The session registry under requests that run one at a time: the
\* SessionEnforcement stage of a login runs to completion before the next
\* request starts.
EnforceLogin(u, d) ==
  /\ reqNo < SeqMaxRequests
  /\ \E active \in getUserSessions(Registry, u) :
       LET maxSessions == getMaxSessions(userPlan[u])
           token == SignToken(u, d)
           R == SessionEnforcement(Registry, u, d, active, maxSessions, token)
       IN /\ sessions' = R.s
          /\ userSessions' = R.i
          /\ issued' = issued \cup {token}
          /\ sessionDocs' =
               SessionCreate(
                 IF Len(active) >= maxSessions
                   THEN SessionUpdateOne(sessionDocs, u, active[1].deviceId, FALSE)
                   ELSE sessionDocs,
                 u, d, token)
          /\ resp' = [Response("login", u, d, 0, 200, "token")
                        EXCEPT !.token = token, !.active = active,
                               !.activeSessions = Len(active) + 1,
                               !.maxSessions = maxSessions]
  /\ reqNo' = reqNo + 1
  /\ UNCHANGED <<fpState, signupState, clock, blocked, lastLocation, redisTrust, redisAlert, devices,
                 userPlan, otpMails, procs, raced, evalOut>>

InitSeq ==
  /\ InitStores
  /\ userPlan \in {f \in [Users -> Plans] : \A u \in Users \ EnfUsers : f[u] = "BASIC"}

NextSeq ==
  \/ \E u \in EnfUsers, d \in Devices : EnforceLogin(u, d)
  \/ \E tk \in issued, op \in AuthOps : \E target \in Targets(tk, op, Devices) :
       AuthRequest(tk, op, target, SeqMaxRequests)
  \/ \E dt \in FineSteps : Tick(dt, SeqMaxTicks)

SpecSeq == InitSeq /\ [][NextSeq]_vars

\* GET /api/protected behind verifySession (routes/protectedRoutes.js):
\* jwt.verify, then Session.findOne({userId, token, deviceId, isActive:
\* true}) on the MongoDB collection; the Redis registry is not consulted.
ProtectedRequest(tk, maxRequests) ==
  /\ reqNo < maxRequests
  /\ resp' = [(IF TokenExpired(tk)
                 THEN Response("protected", tk.u, tk.d, 0, 401, "Invalid token")
               ELSE IF \E k \in 1..Len(sessionDocs[<<tk.u, tk.d>>]) :
                         /\ sessionDocs[<<tk.u, tk.d>>][k].token = tk
                         /\ sessionDocs[<<tk.u, tk.d>>][k].isActive
                 THEN Response("protected", tk.u, tk.d, 0, 200, "Access granted")
               ELSE Response("protected", tk.u, tk.d, 0, 401, "Session expired"))
                EXCEPT !.token = tk]
  /\ reqNo' = reqNo + 1
  /\ UNCHANGED <<fpState, signupState, sessionDocs, clock, redisSess, blocked,
                 lastLocation, redisTrust, redisAlert, devices, userPlan, issued,
                 otpMails, procs, raced, evalOut>>

\* Logins, logouts and requests to the protected routes of one user on two
\* devices, one request at a time, a millisecond or an hour apart
LogoutMaxRequests == 4
LogoutMaxTicks    == 2

NextLogout ==
  \/ \E d \in {"dA", "dB"} : reqNo < LogoutMaxRequests /\ EnforceLogin("u1", d)
  \/ \E tk \in issued, op \in AuthOps : AuthRequest(tk, op, tk.d, LogoutMaxRequests)
  \/ \E tk \in issued : ProtectedRequest(tk, LogoutMaxRequests)
  \/ \E dt \in {1, HourMs} : Tick(dt, LogoutMaxTicks)

SpecLogout == Init /\ [][NextLogout]_vars

----------------------------------------------------------------------------
\* The alert engine called on its own: evaluateRules(context) with contexts
\* that set up to two of the fields the rule conditions read, at two hours
\* of the day, with store calls that fail, against a registry that holds
\* sessions.
EvaluateRulesCall(ctx, hour, faults) ==
  /\ evalOut.calls < MaxCalls
  /\ \E st \in {evaluateRules(EngineState(Registry, blocked), ctx, hour, faults)} :
        /\ sessions' = st.R.s
        /\ userSessions' = st.R.i
        /\ blocked' = st.blocked
        /\ flagged' = st.flagged
        /\ alertStore' = st.alertStore
        /\ alertSorted' = st.alertSorted
        /\ evalOut' = [calls |-> evalOut.calls + 1, ctx |-> ctx, hour |-> hour,
                       faults |-> faults,
                       hadSession |-> /\ ctx.userId \in Users
                                      /\ ctx.deviceId \in Devices
                                      /\ sessions[<<ctx.userId, ctx.deviceId>>].present,
                       alerts |-> st.alerts, log |-> st.log, errs |-> st.errs]
  /\ UNCHANGED <<fpState, signupState, sessionDocs, clock, reqNo, lastLocation, redisTrust, devices, userPlan, issued,
                 otpMails, resp, procs, raced>>

\* A session of the registry comes from the login stage that creates it
AlertLogin(u, d) ==
  /\ reqNo < MaxRequests
  /\ \E active \in getUserSessions(Registry, u) :
       LET token == SignToken(u, d)
           R == SessionEnforcement(Registry, u, d, active,
                                   getMaxSessions(userPlan[u]), token)
       IN /\ sessions' = R.s
          /\ userSessions' = R.i
          /\ issued' = issued \cup {token}
          /\ sessionDocs' =
               SessionCreate(
                 IF Len(active) >= getMaxSessions(userPlan[u])
                   THEN SessionUpdateOne(sessionDocs, u, active[1].deviceId, FALSE)
                   ELSE sessionDocs,
                 u, d, token)
  /\ reqNo' = reqNo + 1
  /\ UNCHANGED <<fpState, signupState, clock, blocked, lastLocation, redisTrust, redisAlert, devices,
                 userPlan, otpMails, resp, procs, raced, evalOut>>

NextAlerts ==
  \/ \E c \in AlertCalls, faults \in FaultSets :
       EvaluateRulesCall(c.ctx, c.hour, faults)
  \/ \E d \in {"dA", "dB"} : AlertLogin("u1", d)
  \/ \E dt \in FineSteps : Tick(dt, MaxTicks)

SpecAlerts == Init /\ [][NextAlerts]_vars

----------------------------------------------------------------------------
\* The trust scorer called on its own: calculateTrustScore(userId, deviceId,
\* ipAddress) against stores that a long-running service has filled (login
\* counters, device age, country sets, failed attempts, device users).
TrustDevices == {"dA", "dE"}
LoginCounts  == {0, 5, 15, 30, 50}
DeviceAges   == {-1, 0, 7, 30, 90, 180}
CountrySets  == {{}, {"IN"}, {"IN", "US"}, {"IN", "US", "GB"}, {"US"},
                 {"US", "GB", "FR"}, {"US", "GB", "FR", "DE"}}
FailedCounts == {0, 1, 3, 6}
UserSets     == {{}, {"u1"}, {"u1", "u2"}, {"u1", "u2", "u3"}}

InitTrust ==
  /\ components = NoComponents
  /\ fingerprint = NoFingerprint
  /\ now = 0 /\ ticks = 0 /\ reqNo = 0
  /\ sessions = [k \in Users \X Devices |-> NoSession]
  /\ userSessions = [u \in Users |-> {}]
  /\ blocked = [u \in Users |-> 0]
  /\ lastLocation = [u \in Users |-> NoLocation]
  /\ trustCache = [k \in Users \X Devices |-> -1]
  /\ \E cs \in CountrySets : countries = [d \in Devices |-> cs]
  /\ \E n \in LoginCounts : loginCount = [d \in Devices |-> n]
  /\ \E n \in FailedCounts :
       failedAttempts = [d \in Devices |-> [n |-> n, setAt |-> 0]]
  /\ \E us \in UserSets : deviceUsers = [d \in Devices |-> us]
  /\ \E age \in DeviceAges :
       devices = [k \in Users \X Devices |->
                    IF age < 0 THEN NoDevice
                    ELSE [present |-> TRUE, createdAt |-> 0, lastLogin |-> 0,
                          bornDays |-> age]]
  /\ alertStore = {} /\ alertSorted = {}
  /\ flagged = [keys |-> {}, members |-> {}]
  /\ issued = {}
  /\ otpMails = [u \in Users |-> 0]
  /\ resp = NoResp
  /\ procs = [p \in Procs |-> NoProc]
  /\ raced = [u \in Users |-> FALSE]
  /\ rlSignup = [ip \in {"ipDEL", "ipNYC"} |-> [hits |-> 0, setAt |-> 0]]
  /\ userEmails = Users
  /\ sessionDocs = [k \in Users \X Devices |-> <<>>]
  /\ evalOut = NoEval
  /\ userPlan = [u \in Users |-> "BASIC"]

ScoreCall(u, d, hour) ==
  /\ reqNo < MaxRequests
  /\ \E ts \in {calculateTrustScore(u, d, FingerprintOf(d).ip, hour)} :
       /\ trustCache' = [trustCache EXCEPT ![<<u, d>>] = ts.stored]
       /\ countries' = [countries EXCEPT ![d] = ts.countries]
       /\ resp' = [Response("score", u, d, hour, 0, ts.level) EXCEPT !.trust = ts.score]
  /\ reqNo' = reqNo + 1
  /\ UNCHANGED <<fpState, signupState, sessionDocs, clock, redisSess, blocked, lastLocation, loginCount,
                 failedAttempts, deviceUsers, redisAlert, devices, userPlan,
                 issued, otpMails, procs, raced, evalOut>>

NextTrust == \E u \in EnfUsers, d \in TrustDevices, hour \in Hours : ScoreCall(u, d, hour)

SpecTrust == InitTrust /\ [][NextTrust]_vars

----------------------------------------------------------------------------
\* The geo check called on its own: checkGeoImpossibility(userId, ipAddress)
\* for two users from addresses in four cities and from a private address,
\* with an hour, a day or a week between calls.
GeoMaxRequests == 3
GeoMaxTicks    == 2
GeoIps   == {"ipDEL", "ipNYC", "ipJAI", "ipBOM", "ipLAN"}
GeoSteps == {HourMs, DayMs, 7 * DayMs}

GeoCheck(u, ip) ==
  /\ reqNo < GeoMaxRequests
  /\ \E g \in {checkGeoImpossibility(u, ip)} :
       /\ lastLocation' = IF g.write.set
                            THEN [lastLocation EXCEPT ![u] = g.write]
                            ELSE lastLocation
       /\ resp' = [Response("geo", u, ip, 0, g.riskScore,
                            IF g.isImpossible THEN "impossible" ELSE "possible")
                     EXCEPT !.lastLocation = g.lastLocation]
  /\ reqNo' = reqNo + 1
  /\ UNCHANGED <<fpState, signupState, sessionDocs, clock, redisSess, blocked, redisTrust, loginCount,
                 failedAttempts, deviceUsers, redisAlert, devices, userPlan,
                 issued, otpMails, procs, raced, evalOut>>

NextGeo ==
  \/ \E u \in Users, ip \in GeoIps : GeoCheck(u, ip)
  \/ \E dt \in GeoSteps : Tick(dt, GeoMaxTicks)

SpecGeo == Init /\ [][NextGeo]_vars

----------------------------------------------------------------------------
\* The fingerprint generator called on its own.  The component mapping of the
\* request is drawn from values a client can send in the JSON body: missing
\* (""), strings (with and without ':' and '|'), a number, arrays, objects.
FpMaxCalls == 2

ComponentValues(k) ==
  CASE k = "canvas" ->
         {Val("string", <<>>), Val("string", <<"a">>),
          Val("object", <<"1">>), Val("object", <<"2">>)}
    [] k = "deviceMemory" ->
         {Val("string", <<>>), Val("string", <<"8">>), Val("number", <<"8">>)}
    [] k = "fonts" ->
         {Val("string", <<>>), Val("string", <<"a">>),
          Val("string", <<"a", "|", "w", "e", "b", "g", "l", ":", "b">>),
          Val("array", <<"a">>), Val("array", <<"a", "b">>),
          Val("string", <<"a", ",", "b">>)}
    [] k = "webgl" ->
         {Val("string", <<>>), Val("string", <<"b">>),
          Val("string", <<"b", "|", "w", "e", "b", "g", "l", ":">>)}

ComponentMappings ==
  {c \in [DOMAIN NoComponents -> UNION {ComponentValues(k) : k \in DOMAIN NoComponents}] :
     \A k \in DOMAIN NoComponents : c[k] \in ComponentValues(k)}

InitFingerprint ==
  /\ InitServices
  /\ alertSorted = {}
  /\ flagged = [keys |-> {}, members |-> {}]
  /\ userPlan = [u \in Users |-> "BASIC"]
  /\ components \in ComponentMappings
  /\ fingerprint = NoFingerprint

GenerateFingerprint ==
  /\ reqNo < FpMaxCalls
  /\ fingerprint' = generateEnhancedFingerprint(components)
  /\ reqNo' = reqNo + 1
  /\ UNCHANGED <<components, signupState, sessionDocs, clock, redisSess, blocked, lastLocation, redisTrust,
                 redisAlert, devices, userPlan, issued, otpMails, resp, procs,
                 raced, evalOut>>

SpecFingerprint == InitFingerprint /\ [][GenerateFingerprint]_vars

----------------------------------------------------------------------------
\* detectSpoofing called on its own, on the components of any request: a user
\* agent of 20 characters or more or a shorter one (a missing header is the
\* empty string), with 0 to 7 of the seven automation tokens in it (at most
\* two fit into fewer than 20 characters), a platform that matches the parsed
\* OS or not, a client-side canvas/webgl/fonts signal or none.
InitSpoof ==
  /\ InitServices
  /\ alertSorted = {}
  /\ flagged = [keys |-> {}, members |-> {}]
  /\ userPlan = [u \in Users |-> "BASIC"]
  /\ fingerprint = NoFingerprint
  /\ components \in {c \in [uaLong : BOOLEAN, uaTokens : 0..7,
                            platformMismatch : BOOLEAN, clientFp : BOOLEAN,
                            ip : {"ipDEL", "ipNYC", "ipLAN"}] :
                       ~c.uaLong => c.uaTokens <= 2}

DetectSpoofingCall ==
  /\ reqNo < MaxCalls
  /\ \E spoofingCheck \in {detectSpoofing(components)} :
       resp' = Response("detectSpoofing", "-", "-", 0, spoofingCheck.riskScore,
                        IF spoofingCheck.isSuspicious THEN "suspicious" ELSE "clean")
  /\ reqNo' = reqNo + 1
  /\ UNCHANGED <<fpState, signupState, sessionDocs, clock, redisSess, blocked, lastLocation, redisTrust,
                 redisAlert, devices, userPlan, issued, otpMails, procs, raced,
                 evalOut>>

SpecSpoof == InitSpoof /\ [][DetectSpoofingCall]_vars

----------------------------------------------------------------------------
\* The session helpers called on their own, one call at a time, for two
\* users and two devices, with a millisecond, 1, 23 or 24 hours between calls,
\* DELETE /sessions/:deviceId (authMiddleware, then terminateSession) sent
\* with a token that one of the createSession calls stored, and one request
\* whose authMiddleware runs its session steps between the other calls.
RegMaxRequests == 4
RegMaxTicks    == 2
RegDevices == {"dA", "dB"}
RegSteps   == {1, HourMs, DayMs - HourMs, DayMs}

CreateSessionCall(u, d) ==
  /\ reqNo < RegMaxRequests
  /\ LET token == SignToken(u, d)
         R == createSession(Registry, u, d, token, LoginMetadata(d))
     IN /\ sessions' = R.s
        /\ userSessions' = R.i
        /\ issued' = issued \cup {token}
        /\ resp' = [Response("createSession", u, d, 0, 0, "-") EXCEPT !.token = token]
  /\ reqNo' = reqNo + 1
  /\ UNCHANGED <<fpState, signupState, sessionDocs, clock, blocked, lastLocation, redisTrust, redisAlert,
                 devices, userPlan, otpMails, procs, raced, evalOut>>

GetUserSessionsCall(u) ==
  /\ reqNo < RegMaxRequests
  /\ \E active \in getUserSessions(Registry, u) :
       resp' = [Response("getUserSessions", u, "-", 0, 0, "-") EXCEPT !.active = active]
  /\ userSessions' = PruneIndex(Registry, u).i
  /\ reqNo' = reqNo + 1
  /\ UNCHANGED <<fpState, signupState, sessionDocs, clock, sessions, blocked, lastLocation, redisTrust,
                 redisAlert, devices, userPlan, issued, otpMails, procs, raced,
                 evalOut>>

DeleteSessionCall(u, d) ==
  /\ reqNo < RegMaxRequests
  /\ LET R == deleteSession(Registry, u, d)
     IN sessions' = R.s /\ userSessions' = R.i
  /\ resp' = Response("deleteSession", u, d, 0, 0, "-")
  /\ reqNo' = reqNo + 1
  /\ UNCHANGED <<fpState, signupState, sessionDocs, clock, blocked, lastLocation, redisTrust, redisAlert,
                 devices, userPlan, issued, otpMails, procs, raced, evalOut>>

UpdateActivityCall(u, d) ==
  /\ reqNo < RegMaxRequests
  /\ LET R == updateActivity(Registry, u, d)
     IN sessions' = R.s /\ userSessions' = R.i
  /\ resp' = Response("updateActivity", u, d, 0, 0, "-")
  /\ reqNo' = reqNo + 1
  /\ UNCHANGED <<fpState, signupState, sessionDocs, clock, blocked, lastLocation, redisTrust, redisAlert,
                 devices, userPlan, issued, otpMails, procs, raced, evalOut>>

\* authMiddleware steps 4 and 5 taken one redis round trip at a time by request
\* p: validateSession's get, then updateActivity's get, then its setex of the
\* record that get returned.  Other requests run between the round trips.
AuthTouch(p, tk) ==
  /\ procs[p].u \in {"-", tk.u}
  /\ procs[p].d \in {"-", tk.d}
  /\ \/ /\ procs[p].pc = "idle"
        /\ reqNo < RegMaxRequests
        /\ validateSession(Registry, tk.u, tk.d, tk)
        /\ procs' = [procs EXCEPT ![p] = [NoProc EXCEPT !.pc = "validated",
                                                        !.u = tk.u, !.d = tk.d]]
        /\ resp' = [Response("authenticate", tk.u, tk.d, 0, 0, "-") EXCEPT !.token = tk]
        /\ reqNo' = reqNo + 1
        /\ UNCHANGED redisSess
     \/ /\ procs[p].pc = "validated"
        /\ procs' = [procs EXCEPT ![p].pc = "read",
                                  ![p].active = <<getSession(Registry, tk.u, tk.d)>>]
        /\ UNCHANGED <<reqNo, resp, redisSess>>
     \/ /\ procs[p].pc = "read"
        /\ LET session == procs[p].active[1]
               R == IF session.present
                      THEN updateActivity([Registry EXCEPT !.s[<<tk.u, tk.d>>] = session],
                                          tk.u, tk.d)
                      ELSE Registry
           IN sessions' = R.s /\ userSessions' = R.i
        /\ procs' = [procs EXCEPT ![p] = NoProc]
        /\ UNCHANGED <<reqNo, resp>>
  /\ UNCHANGED <<fpState, signupState, sessionDocs, now, ticks, blocked, lastLocation, redisTrust, redisAlert,
                 devices, userPlan, issued, otpMails, raced, evalOut>>

NextRegistry ==
  \/ \E u \in Users, d \in RegDevices : CreateSessionCall(u, d)
  \/ \E u \in Users : GetUserSessionsCall(u)
  \/ \E u \in Users, d \in RegDevices : DeleteSessionCall(u, d)
  \/ \E u \in Users, d \in RegDevices : UpdateActivityCall(u, d)
  \/ \E tk \in issued, target \in RegDevices :
       AuthRequest(tk, "terminate", target, RegMaxRequests)
  \/ \E tk \in issued : AuthTouch("p1", tk)
  \/ \E dt \in RegSteps : Tick(dt, RegMaxTicks)

SpecRegistry == Init /\ [][NextRegistry]_vars

----------------------------------------------------------------------------
\* Blocks: logins of u1 and u2 from an ordinary browser (dA) and from an
\* automated one (dD, which the spoof check answers with blockUser for an
\* hour), OTP verifications, and the protected routes called with the token
\* of a session, a millisecond or an hour apart.  The sessions come from the
\* createSession call of a login that checkBlockedMiddleware let through.
BlockMaxRequests == 3
BlockMaxTicks    == 2

NextBlock ==
  \/ \E e \in Emails, passwordOk \in BOOLEAN, d \in {"dA", "dD"}, hour \in Hours :
       LoginRequest(e, passwordOk, d, hour)
  \/ \E e \in Emails, otpGiven \in BOOLEAN, d \in {"dA", "dD"} :
       VerifyOtpRequest(e, otpGiven, d)
  \/ \E u \in Users : ~checkUserBlocked(blocked, u) /\ CreateSessionCall(u, "dA")
  \/ \E tk \in issued, op \in AuthOps :
       AuthRequest(tk, op, tk.d, BlockMaxRequests)
  \/ \E dt \in {1, HourMs} : Tick(dt, BlockMaxTicks)

SpecBlock == Init /\ [][NextBlock]_vars

----------------------------------------------------------------------------
\* POST /api/auth/signup: signupLimiter, then the signup controller.  The
\* limiter (express-rate-limit) calls RedisStore.increment with the client
\* address as key and rejects with 429 when totalHits exceeds max (3).
\* increment is INCR followed, when the counter was just created, by
\* EXPIRE 900: the key lives 900 seconds from its first hit, whatever
\* windowMs the limiter was given.  The controller answers 201 after
\* User.create and 400 when bcrypt.hash or User.create throws (no password,
\* e-mail already signed up).
SignupMaxRequests == 5
SignupMaxTicks    == 2
SignupMax         == 3
SignupWindowSeconds == 3600
RateLimitKeySeconds == 900

SignupRequest(e, passwordGiven, ip) ==
  /\ reqNo < SignupMaxRequests
  /\ LET key     == rlSignup[ip]
         live    == key.hits > 0 /\ Live(key.setAt, RateLimitKeySeconds, now)
         current == IF live THEN key.hits + 1 ELSE 1
         created == passwordGiven /\ e \notin userEmails
     IN /\ rlSignup' = [rlSignup EXCEPT ![ip] =
                          [hits |-> current, setAt |-> IF live THEN key.setAt ELSE now]]
        /\ IF current > SignupMax
             THEN /\ resp' = Response("signup", e, "-", 0, 429,
                                      "Too many signup attempts from this IP.")
                  /\ UNCHANGED userEmails
             ELSE /\ resp' = IF created
                               THEN Response("signup", e, "-", 0, 201,
                                             "User created successfully")
                               ELSE Response("signup", e, "-", 0, 400,
                                             "User already exists")
                  /\ userEmails' = IF created THEN userEmails \cup {e} ELSE userEmails
  /\ reqNo' = reqNo + 1
  /\ UNCHANGED <<fpState, sessionDocs, clock, redisSess, blocked, lastLocation,
                 redisTrust, redisAlert, devices, userPlan, issued, otpMails, procs,
                 raced, evalOut>>

NextSignup ==
  \/ \E e \in {"u1", "nobody"}, passwordGiven \in BOOLEAN, ip \in DOMAIN rlSignup :
       SignupRequest(e, passwordGiven, ip)
  \/ \E dt \in {1, RateLimitKeySeconds * 1000, HourMs} : Tick(dt, SignupMaxTicks)

SpecSignup == Init /\ [][NextSignup]_vars

----------------------------------------------------------------------------
\* storeAlert called on its own, on a service whose recency index is empty,
\* one short of the cap or at the cap.  The entries already in the index are
\* of alerts stored more than eight days before the run starts: their records
\* have expired, their index entries have not (nothing but the trim removes
\* an entry of alerts:sorted).  The service flagged no user so far, or it
\* flagged u1 23 days before the run starts (a 'flag' action of an alert
\* whose record has expired since).
AsMaxCalls == 3
AsMaxTicks == 2
AsSteps == {1, 7 * DayMs}
AsRules == {"vpn_detected", "device_sharing"}

InitAlertStore ==
  /\ InitServices
  /\ components = NoComponents
  /\ fingerprint = NoFingerprint
  /\ userPlan = [u \in Users |-> "BASIC"]
  /\ \E n \in {0, AlertCap - 1, AlertCap} :
       alertSorted = {-(8 * DayMs) - i : i \in 1..n}
  /\ flagged \in {[keys |-> {}, members |-> {}],
                   [keys |-> {[id |-> "u1", setAt |-> -(23 * DayMs)]},
                    members |-> {"u1"}]}

StoreAlertCall(id, u) ==
  /\ reqNo < AsMaxCalls
  /\ \E st \in {storeAlert(EngineState(Registry, blocked), id,
                           [CtxBase EXCEPT !.userId = u])} :
       /\ alertStore' = st.alertStore
       /\ alertSorted' = st.alertSorted
  /\ resp' = Response("storeAlert", u, "-", 0, 0, id)
  /\ reqNo' = reqNo + 1
  /\ UNCHANGED <<fpState, signupState, sessionDocs, clock, redisSess, blocked, lastLocation, redisTrust,
                 flagged, devices, userPlan, issued, otpMails, procs, raced,
                 evalOut>>

NextAlertStore ==
  \/ \E id \in AsRules, u \in EnfUsers : StoreAlertCall(id, u)
  \/ \E dt \in AsSteps : Tick(dt, AsMaxTicks)

SpecAlertStore == InitAlertStore /\ [][NextAlertStore]_vars

----------------------------------------------------------------------------
\* Properties of the session registry

\* The devices d with a live key session:u:d
LiveKeys(u) == {d \in Devices : sessions[<<u, d>>].present}

\* C1: when requests do not overlap, after any sequence of logins, logouts,
\* terminations and expiries every user has at most M live session keys,
\* where M is 1 for BASIC, 2 for STANDARD, 4 for PREMIUM and 1 for any other
\* plan value.
C1_SessionLimit ==
  \A u \in Users :
    LET M == CASE userPlan[u] = "BASIC"    -> 1
               [] userPlan[u] = "STANDARD" -> 2
               [] userPlan[u] = "PREMIUM"  -> 4
               [] OTHER                    -> 1
    IN /\ getMaxSessions(userPlan[u]) = M
       /\ Cardinality(LiveKeys(u)) <= M

\* A PREMIUM user holds four sessions after a login that found four
C1_Witness ==
  /\ resp.op = "login" /\ resp.body = "token"
  /\ userPlan[resp.email] = "PREMIUM"
  /\ Len(resp.active) = 4
  /\ Cardinality(LiveKeys(resp.email)) = 4

\* C2: a login that finds N >= M active sessions evicts the session that has
\* the smallest createdAt of the list it read, whatever the lastActivity
\* values, and does so before it creates its own session: afterwards the
\* evicted key is absent (unless it is the key the login itself writes), the
\* new key is present and no other key has changed.  On BASIC a second login
\* from another device leaves the first session absent and the second present.
C2_EvictsOldest ==
  [][(reqNo' # reqNo /\ resp'.op = "login" /\ resp'.body = "token"
        /\ Len(resp'.active) >= resp'.maxSessions)
      => LET u      == resp'.email
             d      == resp'.device
             victim == resp'.active[1]
         IN /\ \A k \in 1..Len(resp'.active) :
                 victim.createdAt <= resp'.active[k].createdAt
            /\ sessions[<<u, victim.deviceId>>].present
            /\ victim.deviceId # d => ~sessions'[<<u, victim.deviceId>>].present
            /\ sessions'[<<u, d>>].present
            /\ sessions'[<<u, d>>].token = resp'.token
            /\ \A k \in DOMAIN sessions :
                 k \notin {<<u, victim.deviceId>>, <<u, d>>} => sessions'[k] = sessions[k]
            /\ (userPlan[u] = "BASIC" /\ victim.deviceId # d)
                 => {x \in Devices : sessions'[<<u, x>>].present} = {d}]_vars

\* An eviction removed a session that had been used more recently than one
\* that stays
C2_Witness ==
  /\ resp.op = "login" /\ resp.body = "token"
  /\ Len(resp.active) >= resp.maxSessions
  /\ ~sessions[<<resp.email, resp.active[1].deviceId>>].present
  /\ \E k \in 2..Len(resp.active) :
       /\ resp.active[1].lastActivity > resp.active[k].lastActivity
       /\ sessions[<<resp.email, resp.active[k].deviceId>>].present

AlertCount(alerts, id) == Cardinality({k \in 1..Len(alerts) : alerts[k] = id})

----------------------------------------------------------------------------
\* Properties of the login flow.  The step under consideration is a login
\* request that passed checkBlockedMiddleware and was answered by the
\* controller; resp' echoes the request.

\* The step is a login answered by the controller
LoginAnswered ==
  /\ reqNo' # reqNo
  /\ resp'.op = "login"
  /\ resp'.email \in Users => ~checkUserBlocked(blocked, resp'.email)

\* ... of a registered user whose password matched
ValidLoginAnswered ==
  /\ LoginAnswered
  /\ resp'.email \in Users
  /\ resp'.passwordOk

\* ... that the spoof check let through
PastSpoofCheck ==
  /\ ValidLoginAnswered
  /\ detectSpoofing(FingerprintOf(resp'.device)).riskScore <= 70

\* The geo check of the step finds impossible travel
TravelImpossible ==
  checkGeoImpossibility(resp'.email, FingerprintOf(resp'.device).ip).isImpossible

\* C4: a login with valid credentials, spoof riskScore <= 70, no impossible
\* travel, a known device and N < M sessions, all on other devices, returns a
\* token, reports activeSessions = N + 1, evicts no session, issues no OTP,
\* and leaves the (user, device) session in the registry, valid for the
\* returned token.
C4_KnownDeviceLogin ==
  [][(PastSpoofCheck /\ ~TravelImpossible
        /\ devices[<<resp'.email, resp'.device>>].present
        /\ ~sessions[<<resp'.email, resp'.device>>].present
        /\ Cardinality(LiveKeys(resp'.email)) < getMaxSessions(userPlan[resp'.email]))
      => LET u == resp'.email
             d == resp'.device
         IN /\ resp'.status = 200 /\ resp'.body = "token"
            /\ resp'.token # NoToken
            /\ resp'.activeSessions = Cardinality(LiveKeys(u)) + 1
            /\ \A x \in Devices \ {d} :
                 sessions[<<u, x>>].present => sessions'[<<u, x>>] = sessions[<<u, x>>]
            /\ otpMails' = otpMails
            /\ validateSession([s |-> sessions', i |-> userSessions'],
                               u, d, resp'.token)]_vars

\* C5: for a device without a device record a login with trust score < 60
\* ends in an OTP challenge, with no session created and no token; with
\* trust score >= 60 a device record is created and the login goes on to
\* create the session; for a known device only lastLogin of the record is
\* refreshed.
C5_DeviceDecision ==
  [][(PastSpoofCheck /\ ~TravelImpossible)
      => LET u == resp'.email
             d == resp'.device
             score == calculateTrustScore(u, d, FingerprintOf(d).ip, resp'.hour).score
         IN /\ (~devices[<<u, d>>].present /\ score < 60)
                 => /\ resp'.status = 200 /\ resp'.body = "otpRequired"
                    /\ resp'.token = NoToken
                    /\ UNCHANGED <<redisSess, devices>>
            /\ (~devices[<<u, d>>].present /\ score >= 60)
                 => /\ devices'[<<u, d>>].present
                    /\ resp'.body = "token"
                    /\ sessions'[<<u, d>>].present
            /\ devices[<<u, d>>].present
                 => /\ devices'[<<u, d>>] = [devices[<<u, d>>] EXCEPT !.lastLogin = now]
                    /\ resp'.body = "token"
            /\ \A k \in DOMAIN devices : k # <<u, d>> => devices'[k] = devices[k]]_vars

\* C6: when the geo check flags impossible travel the login sends an OTP,
\* evaluates the alert rules and returns the challenge: no trust score is
\* computed, no token is returned, no session is created, and the trust
\* cache and the per-device country sets are unchanged.
C6_GeoImpossibleBranch ==
  [][(PastSpoofCheck /\ TravelImpossible)
      => LET u == resp'.email
         IN /\ resp'.status = 200 /\ resp'.body = "otpRequired"
            /\ otpMails' = [otpMails EXCEPT ![u] = @ + 1]
            /\ AlertCount(resp'.alerts, "geo_impossibility") = 1
            /\ \E a \in alertStore' : a.key = now /\ a.userId = u
            /\ resp'.trust = -1
            /\ resp'.token = NoToken
            /\ issued' = issued
            /\ \A k \in DOMAIN sessions :
                 sessions'[k].present => sessions'[k] = sessions[k]
            /\ UNCHANGED <<trustCache, countries, loginCount, deviceUsers, devices>>]_vars

\* A login from New York within the flight time from Delhi was challenged
C6_Witness ==
  /\ resp.op = "login" /\ resp.body = "otpRequired"
  /\ AlertCount(resp.alerts, "geo_impossibility") = 1
  /\ otpMails[resp.email] = 1
  /\ trustCache[<<resp.email, resp.device>>] = -1
  /\ \E a \in alertStore : a.ruleId = "geo_impossibility" /\ a.userId = resp.email

\* C7: a login whose spoof riskScore exceeds 70 is answered 403 "Suspicious
\* activity detected", the user is suspended for one hour, and nothing else
\* changes (last location, trust state, registry, alerts, devices, no
\* token); a login with riskScore <= 70 is never rejected by the spoof check.
C7_SpoofCheck ==
  [][ValidLoginAnswered
      => LET u == resp'.email
             risk == detectSpoofing(FingerprintOf(resp'.device)).riskScore
         IN /\ risk > 70
                 => /\ resp'.status = 403
                    /\ resp'.body = "Suspicious activity detected"
                    /\ resp'.token = NoToken
                    /\ blocked' = [blocked EXCEPT ![u] = now + HourMs]
                    /\ UNCHANGED <<lastLocation, redisTrust, redisSess, redisAlert,
                                   devices, otpMails, issued>>
            /\ risk <= 70
                 => /\ resp'.status # 403
                    /\ resp'.body # "Suspicious activity detected"]_vars

\* A login with riskScore 90 was rejected and the user is suspended
C7_Witness ==
  /\ resp.op = "login"
  /\ resp.body = "Suspicious activity detected"
  /\ detectSpoofing(FingerprintOf(resp.device)).riskScore > 70
  /\ blocked[resp.email] = now + HourMs

\* C8: a login with an unknown email or a wrong password is answered 400
\* "Invalid credentials" and writes nothing: no session, device record,
\* OTP, suspension, last location, trust state or alert.
C8_InvalidCredentials ==
  [][(LoginAnswered /\ (resp'.email \notin Users \/ ~resp'.passwordOk))
      => /\ resp'.status = 400
         /\ resp'.body = "Invalid credentials"
         /\ resp'.token = NoToken
         /\ UNCHANGED <<redisSess, devices, otpMails, blocked, lastLocation,
                        redisTrust, redisAlert, issued>>]_vars

\* A wrong password of a user who already has a last location and a cached
\* trust score was rejected
C8_Witness ==
  /\ resp.op = "login"
  /\ resp.body = "Invalid credentials"
  /\ resp.email \in Users
  /\ ~resp.passwordOk
  /\ lastLocation[resp.email].set
  /\ \E d \in Devices : trustCache[<<resp.email, d>>] # -1

----------------------------------------------------------------------------
\* Properties of the alert engine

\* The actions the call ran for rule id, in the order it ran them
ActionsRun(log, id) ==
  LET mine == SelectSeq(log, LAMBDA e : e.rule = id)
  IN [k \in 1..Len(mine) |-> mine[k].action]

\* C9: for every context whose geoCheck.isImpossible is true, one call of
\* evaluateRules triggers geo_impossibility once: its email action runs
\* once and its block_session action runs once, the session of
\* context.userId / context.deviceId is gone afterwards, and the call
\* returns exactly one alert for the rule (when the store accepts the
\* writes of block_session and storeAlert).
C9_GeoRuleOnce ==
  [][(evalOut'.calls # evalOut.calls /\ ~evalOut'.ctx.isNull
        /\ evalOut'.ctx.geoImpossible)
      => LET out == evalOut'
             ran == ActionsRun(out.log, "geo_impossibility")
         IN /\ Cardinality({k \in 1..Len(ran) : ran[k] = "email"}) = 1
            /\ Cardinality({k \in 1..Len(ran) : ran[k] = "block_session"}) = 1
            /\ AlertCount(out.alerts, "geo_impossibility") <= 1
            /\ <<"geo_impossibility", "store">> \notin out.faults
                 => AlertCount(out.alerts, "geo_impossibility") = 1
            /\ (<<"geo_impossibility", "block_session">> \notin out.faults
                  /\ out.ctx.userId \in Users /\ out.ctx.deviceId \in Devices)
                 => /\ ~sessions'[<<out.ctx.userId, out.ctx.deviceId>>].present
                    /\ out.ctx.deviceId \notin userSessions'[out.ctx.userId]
                    /\ \A k \in DOMAIN sessions :
                         k # <<out.ctx.userId, out.ctx.deviceId>>
                           => sessions'[k] = sessions[k]]_vars

\* The call found the session of the context's user and device and removed it
C9_Witness ==
  /\ evalOut.calls > 0
  /\ evalOut.ctx.geoImpossible
  /\ evalOut.faults = {}
  /\ evalOut.hadSession
  /\ ~sessions[<<evalOut.ctx.userId, evalOut.ctx.deviceId>>].present
  /\ AlertCount(evalOut.alerts, "geo_impossibility") = 1

\* C10: failures are isolated.  Whatever throws in a call of evaluateRules
\* (a condition or the message of a rule, an action, the persistence of an
\* alert), every rule whose own condition holds and whose alert can be
\* built still runs all of its actions in order, returns its alert unless
\* its own persistence failed, and the call returns; a rule whose condition
\* or message throws runs no action and returns no alert.
C10_FailureIsolation ==
  evalOut.calls > 0 =>
    \A k \in 1..Len(RuleIds) :
      LET id == RuleIds[k]
          triggers == /\ ~ConditionThrows(id, evalOut.ctx)
                      /\ RuleCondition(id, evalOut.ctx, evalOut.hour)
          caught == ConditionThrows(id, evalOut.ctx)
                      \/ (triggers /\ BuildThrows(id, evalOut.ctx))
      IN /\ (triggers /\ ~BuildThrows(id, evalOut.ctx))
              => /\ ActionsRun(evalOut.log, id) = RuleActions(id)
                 /\ AlertCount(evalOut.alerts, id)
                      = IF <<id, "store">> \in evalOut.faults THEN 0 ELSE 1
         /\ (caught \/ ~triggers)
              => /\ ActionsRun(evalOut.log, id) = <<>>
                 /\ AlertCount(evalOut.alerts, id) = 0
         /\ caught => id \in evalOut.errs

\* An action and the persistence of geo_impossibility failed, and the later
\* rule rapid_location_changes still raised its alert
C10_Witness ==
  /\ evalOut.calls > 0
  /\ \E k \in 1..Len(evalOut.log) :
       evalOut.log[k].rule = "geo_impossibility" /\ evalOut.log[k].threw
  /\ "geo_impossibility" \in evalOut.errs
  /\ AlertCount(evalOut.alerts, "geo_impossibility") = 0
  /\ AlertCount(evalOut.alerts, "rapid_location_changes") = 1

----------------------------------------------------------------------------
\* Properties of the trust scorer

\* C11: the score calculateTrustScore returns lies in 0..100 for every
\* combination of sub-scores, all bonuses together (50+20+15+25) and all
\* penalties together included, and the trust cache holds the same value.
C11_ScoreRange ==
  /\ \A k \in DOMAIN trustCache : trustCache[k] \in -1..100
  /\ resp.op = "score"
       => /\ resp.trust \in 0..100
          /\ trustCache[<<resp.email, resp.device>>] = resp.trust

\* All bonuses together: 110 before the clamp, 100 returned and cached
C11_Witness ==
  /\ resp.op = "score"
  /\ getLoginFrequencyScore(resp.device) = 20
  /\ getDeviceAgeScore(resp.email, resp.device) = 15
  /\ getGeoConsistencyScore(resp.device, FingerprintOf(resp.device).ip).score = 25
  /\ resp.trust = 100
  /\ trustCache[<<resp.email, resp.device>>] = 100

----------------------------------------------------------------------------
\* Properties of the geo check

\* A step that is a geo check from a resolvable address
GeoCheckStep ==
  /\ reqNo' = reqNo + 1
  /\ resp'.op = "geo"
  /\ GeoLookup(resp'.device) # NoGeo

\* C12: a geo check that finds a stored previous location answers
\* isImpossible exactly when the distance between the two locations exceeds
\* 500 km and the elapsed time is less than distance/900 hours, and every
\* check answered isImpossible has riskScore 95; a check that finds no stored
\* location (the first, or one more than 7 days after the previous) is not
\* answered isImpossible.
C12_ImpossibleTravel ==
  [][GeoCheckStep =>
       LET last     == lastLocation[resp'.email]
           distance == calculateDistance(last.loc, GeoLookup(resp'.device))
           seconds  == (now - last.ts) \div 1000
       IN /\ last.set =>
               ((resp'.body = "impossible")
                  <=> (distance > 500 /\ seconds * 900 < distance * 3600))
          /\ ~last.set => resp'.body = "possible"
          /\ resp'.body = "impossible" => resp'.status = 95]_vars

\* Delhi, then New York two hours later: 11742 km, impossible, 95
C12_Witness ==
  /\ resp.op = "geo" /\ resp.device = "ipNYC"
  /\ resp.lastLocation = [set |-> TRUE, loc |-> "DEL", ts |-> 0]
  /\ now = 2 * HourMs
  /\ resp.body = "impossible" /\ resp.status = 95

\* C13: every geo check from a resolvable address, a check answered
\* isImpossible included, leaves the location and time of that check as the
\* user's stored last location and leaves other users' alone; the location a
\* check compares against is the one stored before it, which right after a
\* resolvable check of the same user is that check's location.
C13_LastLocation ==
  [][/\ GeoCheckStep =>
          /\ lastLocation' = [lastLocation EXCEPT ![resp'.email] =
                                [set |-> TRUE, loc |-> GeoLookup(resp'.device),
                                 ts |-> now]]
          /\ resp'.lastLocation = lastLocation[resp'.email]
          /\ (resp.op = "geo" /\ resp.email = resp'.email
                /\ GeoLookup(resp.device) # NoGeo /\ lastLocation[resp'.email].set)
               => resp'.lastLocation.loc = GeoLookup(resp.device)
     /\ (reqNo' = reqNo + 1 /\ resp'.op = "geo" /\ GeoLookup(resp'.device) = NoGeo)
          => lastLocation' = lastLocation]_vars

\* A check answered isImpossible has replaced the stored location by its own
C13_Witness ==
  /\ resp.op = "geo" /\ resp.body = "impossible"
  /\ resp.lastLocation.set
  /\ resp.lastLocation.loc # GeoLookup(resp.device)
  /\ lastLocation[resp.email] = [set |-> TRUE, loc |-> GeoLookup(resp.device), ts |-> now]

----------------------------------------------------------------------------
\* Properties of the fingerprint generator

\* C14: the canonical string and the DeviceId returned for a component
\* mapping differ from those of every mapping that differs from it in the
\* value of exactly one component, values with ':' or '|' and values that are
\* not strings included.
C14_CanonicalInjective ==
  fingerprint.set =>
    \A other \in ComponentMappings :
      Cardinality({k \in DOMAIN components : components[k] # other[k]}) = 1 =>
        /\ generateEnhancedFingerprint(other).fingerprintString
             # fingerprint.fingerprintString
        /\ generateEnhancedFingerprint(other).deviceId # fingerprint.deviceId

----------------------------------------------------------------------------
\* Properties of the session helpers

\* C15: a call of updateActivity on an existing session changes nothing of
\* it but lastActivity, which does not decrease; on a key without a session
\* it creates nothing; no other session and no index changes.
C15_UpdateActivity ==
  [][(reqNo' = reqNo + 1 /\ resp'.op = "updateActivity") =>
       LET k == <<resp'.email, resp'.device>>
       IN /\ sessions[k].present =>
               /\ sessions'[k] = [sessions[k] EXCEPT !.lastActivity = sessions'[k].lastActivity]
               /\ sessions'[k].lastActivity >= sessions[k].lastActivity
          /\ ~sessions[k].present => sessions'[k] = NoSession
          /\ \A j \in DOMAIN sessions : j # k => sessions'[j] = sessions[j]
          /\ userSessions' = userSessions]_vars

\* A session touched after its creation: lastActivity later than createdAt
C15_Witness ==
  /\ resp.op = "updateActivity"
  /\ sessions[<<resp.email, resp.device>>].present
  /\ sessions[<<resp.email, resp.device>>].lastActivity
       > sessions[<<resp.email, resp.device>>].createdAt
  /\ sessions[<<resp.email, resp.device>>].token \in issued

\* C16 as stated: after createSession on a key that already has a session
\* the key holds the new token, the old token no longer validates, the new
\* one does, and the user's session list has the deviceId exactly once.
C16_ReplaceInvalidatesOld ==
  [][(reqNo' = reqNo + 1 /\ resp'.op = "createSession") =>
       LET k == <<resp'.email, resp'.device>>
       IN sessions[k].present =>
            /\ sessions'[k].present /\ sessions'[k].token = resp'.token
            /\ ~(sessions'[k].present /\ sessions'[k].token = sessions[k].token)
            /\ \A q \in getUserSessions([s |-> sessions', i |-> userSessions'], resp'.email) :
                 Cardinality({n \in 1..Len(q) : q[n].deviceId = resp'.device}) = 1]_vars

\* C16: there is one session record per (userId, deviceId).  createSession on
\* a key that already has a session replaces the record: the key then holds
\* the new token, which validates; the old token validates no longer unless
\* it is the same token (signed for the same user and device in the same
\* second); the user's session list has the deviceId exactly once; no other
\* key changes.
C16_Replace ==
  [][(reqNo' = reqNo + 1 /\ resp'.op = "createSession") =>
       LET k == <<resp'.email, resp'.device>>
       IN /\ sessions'[k].present /\ sessions'[k].token = resp'.token
          /\ sessions'[k].createdAt = now
          /\ (sessions[k].present /\ sessions[k].token # resp'.token)
               => ~(sessions'[k].present /\ sessions'[k].token = sessions[k].token)
          /\ (sessions[k].present /\ sessions[k].token = resp'.token)
               => resp'.token.iat = now \div 1000
          /\ \A q \in getUserSessions([s |-> sessions', i |-> userSessions'], resp'.email) :
               Cardinality({n \in 1..Len(q) : q[n].deviceId = resp'.device}) = 1
          /\ \A j \in DOMAIN sessions : j # k => sessions'[j] = sessions[j]]_vars

\* The second of two createSession calls for one key, an hour apart, has
\* replaced the first: two tokens were issued, the key holds the later one
C16_Witness ==
  /\ resp.op = "createSession" /\ reqNo = 2 /\ now = HourMs
  /\ \E old \in issued :
       /\ old.u = resp.email /\ old.d = resp.device /\ old.iat < resp.token.iat
       /\ ~validateSession(Registry, resp.email, resp.device, old)
  /\ validateSession(Registry, resp.email, resp.device, resp.token)
  /\ userSessions[resp.email] = {resp.device}

\* C17: getUserSessions returns exactly the sessions whose deviceId is in
\* the user's index and whose record exists, in ascending order of
\* createdAt, and leaves in the index exactly those deviceIds; it changes no
\* session record and no other user's index.
C17_GetUserSessions ==
  [][(reqNo' = reqNo + 1 /\ resp'.op = "getUserSessions") =>
       LET u    == resp'.email
           live == {d \in userSessions[u] : sessions[<<u, d>>].present}
           q    == resp'.active
       IN /\ Len(q) = Cardinality(live)
          /\ {q[n].deviceId : n \in 1..Len(q)} = live
          /\ \A n \in 1..Len(q) :
               /\ q[n].createdAt = sessions[<<u, q[n].deviceId>>].createdAt
               /\ q[n].lastActivity = sessions[<<u, q[n].deviceId>>].lastActivity
          /\ \A m, n \in 1..Len(q) : m < n => q[m].createdAt <= q[n].createdAt
          /\ userSessions' = [userSessions EXCEPT ![u] = live]
          /\ \A d \in userSessions'[u] : sessions'[<<u, d>>].present
          /\ sessions' = sessions]_vars

\* A call that found one of two indexed deviceIds without a record (its key
\* had expired) returned the other and removed the stale deviceId
C17_Witness ==
  /\ resp.op = "getUserSessions" /\ reqNo = 3
  /\ Len(resp.active) = 1
  /\ userSessions[resp.email] = {resp.active[1].deviceId}
  /\ \E t \in issued : t.u = resp.email /\ t.d \notin userSessions[resp.email]

\* C18: terminateSession with the caller's own deviceId answers 400 and with
\* another deviceId removes that (userId, deviceId) session and its index
\* entry; apart from that, and from the lastActivity of the caller's session
\* that authMiddleware sets before the controller runs, no session of this
\* or another user and no index changes.  A request that authMiddleware
\* rejects changes nothing.
C18_TerminateSession ==
  [][(reqNo' = reqNo + 1 /\ resp'.op = "terminate") =>
       LET u       == resp'.email
           own     == resp'.device
           target  == resp'.target
           touched == [sessions EXCEPT ![<<u, own>>].lastActivity = now]
       IN /\ resp'.status \in {200, 400, 401}
          /\ resp'.status = 401 => sessions' = sessions /\ userSessions' = userSessions
          /\ resp'.status # 401 =>
               /\ sessions[<<u, own>>].present
               /\ (resp'.status = 400) <=> (target = own)
               /\ target = own => sessions' = touched /\ userSessions' = userSessions
               /\ target # own =>
                    /\ sessions' = [touched EXCEPT ![<<u, target>>] = NoSession]
                    /\ userSessions' = [userSessions EXCEPT ![u] = @ \ {target}]]_vars

\* u1 terminated its other session from dA or dB: that session is gone, the
\* caller's own and another user's session are still there
C18_Witness ==
  /\ resp.op = "terminate" /\ resp.status = 200 /\ reqNo = 4 /\ now = 0
  /\ resp.target # resp.device
  /\ \E t \in issued : t.u = resp.email /\ t.d = resp.target
  /\ ~sessions[<<resp.email, resp.target>>].present
  /\ sessions[<<resp.email, resp.device>>].present
  /\ \E u \in Users \ {resp.email}, d \in RegDevices : sessions[<<u, d>>].present

----------------------------------------------------------------------------
\* Properties of the alert store

\* C19: alert persistence is append-only.  An alert that getRecentAlerts
\* returns is still returned after any step unless it has become older than
\* 7 days or the cap has pushed its entry out of the index, and a storeAlert
\* call, one in the millisecond of an earlier call included, adds its alert
\* as a record of its own.
C19_AppendOnly ==
  [][/\ \A a \in getRecentAlerts(AlertCap) :
          \/ a \in getRecentAlerts(AlertCap)'
          \/ ~Live(a.key, AlertRetentionSeconds, now')
          \/ a.key \notin alertSorted' /\ Cardinality(alertSorted') = AlertCap
     /\ (reqNo' = reqNo + 1 /\ resp'.op = "storeAlert") =>
          /\ [key |-> now, ruleId |-> resp'.body, userId |-> resp'.email]
               \in getRecentAlerts(AlertCap)'
          /\ Cardinality(alertStore') = Cardinality(alertStore) + 1]_vars

\* C20: the recency index never holds more than 1000 entries; a storeAlert
\* call adds its own entry, and every entry that is not in the index after
\* the call, of those before it and the one added, is older than every entry
\* that is; no other step changes the index.
C20_IndexCap ==
  [][/\ Cardinality(alertSorted') <= AlertCap
     /\ IF reqNo' = reqNo + 1 /\ resp'.op = "storeAlert"
          THEN /\ alertSorted' \subseteq alertSorted \cup {now}
               /\ \A gone \in (alertSorted \cup {now}) \ alertSorted' :
                    \A kept \in alertSorted' : gone < kept
          ELSE alertSorted' = alertSorted]_vars

\* Two alerts stored into a full index: the two oldest entries have gone,
\* the two new ones are in, the index is at the cap
C20_Witness ==
  /\ resp.op = "storeAlert" /\ reqNo = 2 /\ now = 1
  /\ Cardinality(alertSorted) = AlertCap
  /\ {0, 1} \subseteq alertSorted
  /\ -(8 * DayMs) - AlertCap \notin alertSorted
  /\ -(8 * DayMs) - (AlertCap - 1) \notin alertSorted
  /\ -(8 * DayMs) - (AlertCap - 2) \in alertSorted


\* C21: once deleteSession has completed for a key, the key has no session
\* record (get returns absent, validateSession is false for the old token)
\* until a createSession for that key: the step that follows a completed
\* deleteSession gives the key a record only if it is that createSession,
\* whatever a concurrent authenticated request does in between.
C21_DeletedStaysGone ==
  [][\A k \in Users \X RegDevices :
       ( /\ resp.op = "deleteSession"
         /\ k = <<resp.email, resp.device>>
         /\ ~sessions[k].present
         /\ sessions'[k].present )
       => ( /\ resp'.op = "createSession"
            /\ reqNo' = reqNo + 1
            /\ k = <<resp'.email, resp'.device>> )]_vars


\* C22: every session is gone from the registry no later than the fixed TTL
\* (24 hours) after it was created, however often its activity was updated:
\* a key that holds a session record holds one created less than 24 hours ago.
C22_GoneAfterTTL ==
  \A k \in DOMAIN sessions :
    sessions[k].present =>
      (now - sessions[k].createdAt) \div 1000 < SessionTTLSeconds


\* C23: the riskScore of a geo check that finds a stored previous location is
\* the score of the first tier that matches, in the order impossible -> 95,
\* more than 3000 km in under an hour -> 75, country changed -> 40, more than
\* 100 km -> 20, otherwise 0; a check without a previous location scores 0;
\* the score is one of 0, 20, 40, 75, 95, and it is 95 exactly when the check
\* answers isImpossible.
C23_RiskTiers ==
  [][GeoCheckStep =>
       LET last     == lastLocation[resp'.email]
           here     == GeoLookup(resp'.device)
           distance == calculateDistance(last.loc, here)
           seconds  == (now - last.ts) \div 1000
       IN /\ last.set =>
               resp'.status =
                 IF resp'.body = "impossible" THEN 95
                 ELSE IF distance > 3000 /\ seconds < 3600 THEN 75
                 ELSE IF CountryOf(last.loc) # CountryOf(here) THEN 40
                 ELSE IF distance > 100 THEN 20
                 ELSE 0
          /\ ~last.set => resp'.status = 0
          /\ resp'.status \in {0, 20, 40, 75, 95}
          /\ resp'.status = 95 <=> resp'.body = "impossible"]_vars

\* Delhi, then New York a day later: another country and more than 100 km
\* away, reachable in the time, so the country tier decides: 40
C23_Witness ==
  /\ resp.op = "geo" /\ resp.device = "ipNYC"
  /\ resp.lastLocation = [set |-> TRUE, loc |-> "DEL", ts |-> 0]
  /\ now = DayMs
  /\ resp.body = "possible"
  /\ resp.status = 40


\* C24: the geo check of a login from an address that does not resolve (a
\* private address) answers isImpossible = false and riskScore = 0 and leaves
\* the stored last location of every user as it was, and the login goes on
\* to the trust-score stage: the trust score of the (user, device) pair is
\* computed and cached, and the login is answered neither with the credential
\* or spoof rejection nor with the OTP of impossible travel.
C24_UnresolvableIp ==
  [][(PastSpoofCheck /\ IsPrivateIp(FingerprintOf(resp'.device).ip))
      => LET u  == resp'.email
             d  == resp'.device
             ip == FingerprintOf(d).ip
             geoCheck == checkGeoImpossibility(u, ip)
         IN /\ ~geoCheck.isImpossible
            /\ geoCheck.riskScore = 0
            /\ lastLocation' = lastLocation
            /\ trustCache'[<<u, d>>] = calculateTrustScore(u, d, ip, resp'.hour).score
            /\ trustCache'[<<u, d>>] \in 0..100
            /\ resp'.status \notin {400, 403}
            /\ resp'.body # "otpRequired"]_vars

\* A login from the private address, an hour after a login from Delhi: the
\* Delhi location is still the stored one and the trust score of the private
\* address's device is cached
C24_Witness ==
  /\ resp.op = "login" /\ resp.email \in Users /\ resp.passwordOk
  /\ resp.device = "dE"
  /\ resp.status \notin {400, 403}
  /\ now = HourMs
  /\ lastLocation[resp.email] = [set |-> TRUE, loc |-> "DEL", ts |-> 0]
  /\ trustCache[<<resp.email, "dE">>] >= 0


\* C25: the geo-consistency part of a trust score.  An observation from an
\* address that does not resolve adds 0 and records nothing; the first
\* observation of a device adds 10 and records the country; an observation of
\* a recorded country adds 25 when one country is recorded, 15 when two, 5
\* when more; an observation of a new country records it and adds 0, or -10
\* when more than 3 countries were recorded before it.  No other device's
\* country set changes.
C25_GeoConsistency ==
  [][(reqNo' = reqNo + 1 /\ resp'.op = "score") =>
       LET u    == resp'.email
           d    == resp'.device
           ip   == FingerprintOf(d).ip
           here == CountryOf(GeoLookup(ip))
           seen == countries[d]
           n    == Cardinality(seen)
           sub  == IF GeoLookup(ip) = NoGeo THEN 0
                   ELSE IF n = 0 THEN 10
                   ELSE IF here \in seen
                     THEN (IF n = 1 THEN 25 ELSE IF n = 2 THEN 15 ELSE 5)
                   ELSE IF n > 3 THEN -10 ELSE 0
           rest == BaseTrustScore + getLoginFrequencyScore(d) + getDeviceAgeScore(u, d)
                     + getFailedAttemptsScore(d) + getSuspiciousHoursScore(resp'.hour)
                     + getDeviceSharingScore(d) + getVPNScore(ip)
       IN /\ resp'.trust = Clamp(rest + sub)
          /\ countries'[d] = IF GeoLookup(ip) # NoGeo /\ here \notin seen
                               THEN seen \cup {here} ELSE seen
          /\ \A x \in Devices \ {d} : countries'[x] = countries[x]]_vars

\* Two observations of a device from India that had US, GB and FR recorded:
\* the first recorded IN as the fourth country and added 0, the second found
\* IN among four recorded countries and added 5.  On a device without logins,
\* failed attempts, age or other users at noon the scores are 50 and 55.
C25_Witness ==
  /\ resp.op = "score" /\ resp.device = "dA" /\ reqNo = 2
  /\ countries["dA"] = {"US", "GB", "FR", "IN"}
  /\ loginCount["dA"] = 0 /\ failedAttempts["dA"].n = 0
  /\ deviceUsers["dA"] = {} /\ ~devices[<<resp.email, "dA">>].present
  /\ resp.hour = 12
  /\ resp.trust = 55


\* C26: for a call of evaluateRules in which nothing throws (no condition,
\* no message, no store call), the alerts returned are the rules whose
\* condition holds on the context, one alert each, in the order of the rule
\* table; each of those rules ran its actions in the order the rule declares
\* them, a rule whose condition does not hold ran none, and the actions of an
\* earlier rule of the table all ran before those of a later one.
C26_AlertsInTableOrder ==
  ( /\ evalOut.calls > 0
    /\ evalOut.faults = {}
    /\ evalOut.errs = {}
    /\ \A k \in 1..Len(RuleIds) : ~ConditionThrows(RuleIds[k], evalOut.ctx) )
  => LET holds(id) == RuleCondition(id, evalOut.ctx, evalOut.hour)
         rank(id)  == CHOOSE k \in 1..Len(RuleIds) : RuleIds[k] = id
         log       == evalOut.log
     IN /\ evalOut.alerts = SelectSeq(RuleIds, holds)
        /\ \A k \in 1..Len(RuleIds) :
             ActionsRun(log, RuleIds[k])
               = IF holds(RuleIds[k]) THEN RuleActions(RuleIds[k]) ELSE <<>>
        /\ \A i, j \in 1..Len(log) :
             i < j => rank(log[i].rule) <= rank(log[j].rule)

\* Impossible travel through a VPN: two alerts, geo_impossibility before
\* vpn_detected, after the five actions email, slack, block_session, email,
\* flag
C26_Witness ==
  /\ evalOut.calls > 0
  /\ evalOut.faults = {} /\ evalOut.errs = {}
  /\ evalOut.alerts = <<"geo_impossibility", "vpn_detected">>
  /\ [k \in 1..Len(evalOut.log) |-> evalOut.log[k].action]
       = <<"email", "slack", "block_session", "email", "flag">>


\* C27: detectSpoofing returns riskScore = min(100, sum of the weights of the
\* rules that match), the weights being 30 for a user agent that is missing
\* or shorter than 20 characters, 50 for each automation token in the user
\* agent, 25 for a platform/OS mismatch and 40 for no canvas, webgl or fonts
\* signal; the riskScore lies in 0..100; an assessment with riskScore > 70 has
\* isSuspicious = true, so the login's rejection test is riskScore > 70.
C27_SpoofScore ==
  resp.op = "detectSpoofing" =>
    LET c   == components
        sum == (IF c.uaLong THEN 0 ELSE 30) + 50 * c.uaTokens
                 + (IF c.platformMismatch THEN 25 ELSE 0)
                 + (IF c.clientFp THEN 0 ELSE 40)
    IN /\ resp.status = (IF sum > 100 THEN 100 ELSE sum)
       /\ resp.status \in 0..100
       /\ resp.status > 70 => resp.body = "suspicious"
       /\ SpoofRejects([isSuspicious |-> resp.body = "suspicious",
                        riskScore |-> resp.status]) <=> resp.status > 70

\* A short user agent with two automation tokens, a platform/OS mismatch and
\* no client-side signal: 195 before the cap, 100 returned, suspicious
C27_Witness ==
  /\ resp.op = "detectSpoofing"
  /\ ~components.uaLong /\ components.uaTokens = 2
  /\ components.platformMismatch /\ ~components.clientFp
  /\ resp.status = 100
  /\ resp.body = "suspicious"


\* C28: a login that passed the credential, spoof and geo checks reads the
\* device record before it sets isNewDevice from it, and does not end in an
\* internal error between the trust-score stage and the device decision: it
\* is not answered 500.
C28_NoInternalError ==
  [][(PastSpoofCheck /\ ~TravelImpossible) => resp'.status # 500]_vars


\* C29: a user flagged by a 'flag' action is reported as flagged (isUserFlagged
\* non-null, counted among the flaggedUsers of the statistics) only until 30
\* days after the most recent flag action or until clearUserFlag: every user
\* reported as flagged has a flag record less than 30 days old.
C29_FlagLapses ==
  \A u \in Users :
    (isUserFlagged(u) # "null" \/ u \in flagged.members)
      => \E k \in flagged.keys :
           k.id = u /\ now \div 1000 - k.setAt \div 1000 < FlagSeconds


C31_SignupLimit ==
  [][\A ip \in DOMAIN rlSignup :
       (/\ rlSignup'[ip] # rlSignup[ip]
        /\ rlSignup[ip].hits >= SignupMax
        /\ Live(rlSignup[ip].setAt, SignupWindowSeconds, now))
         => resp'.status = 429]_vars

\* C32: when no registry operation is in progress, every session record
\* that exists has its deviceId in the index set of its user (so that
\* getUserSessions returns it and the session limit counts it).
C32_RecordsIndexed ==
  (\A p \in Procs : procs[p].pc = "idle")
    => \A u \in Users, d \in Devices :
         sessions[<<u, d>>].present => d \in userSessions[u]

C35_TiersAttainable ==
  \A r \in {95, 75, 40, 20, 0} :
    \E a \in Locations, b \in Locations,
       dt \in {0, 1, HourMs - 1, HourMs, 4 * HourMs, DayMs, 6 * DayMs} :
      RiskTier([set |-> TRUE, loc |-> a, ts |-> now - dt], b, now).riskScore = r

\* The four scores other than 75 are attained
C35_OtherTiersAttainable ==
  \A r \in {95, 40, 20, 0} :
    \E a \in Locations, b \in Locations, dt \in {1, HourMs, DayMs} :
      RiskTier([set |-> TRUE, loc |-> a, ts |-> now - dt], b, now).riskScore = r

\* C36: verifyOtp approves a device (answers 200 and creates the device
\* record) only for a user to whom a login challenge has sent an OTP.
C36_OtpOnlyAfterChallenge ==
  [][(reqNo' = reqNo + 1 /\ resp'.op = "verifyOtp"
        /\ (resp'.status = 200 \/ devices' # devices))
       => otpMails[resp'.email] > 0]_vars

\* C38: a calculateTrustScore call that follows a call for the same user,
\* device and address at the same hour, with nothing but the first call's
\* own writes in between, returns the score the first call returned.
C38_RetrySameScore ==
  [][(/\ resp.op = "score" /\ resp'.op = "score"
      /\ reqNo' = reqNo + 1
      /\ resp'.email = resp.email
      /\ resp'.device = resp.device
      /\ resp'.hour = resp.hour)
       => resp'.trust = resp.trust]_vars

C40_MiddlewareRejects ==
  [][(/\ resp.op = "logout" /\ resp.status = 200
      /\ reqNo' = reqNo + 1
      /\ resp'.op \in AuthOps
      /\ resp'.token.u = resp.email
      /\ resp'.token.d = resp.device)
       => resp'.status \in {401, 403}]_vars

====
